---- MODULE Spec2Model ----
(***************************************************************************)
(* Card-presence stabilisation of the PN532 12-reader poker server         *)
(* (pn532_12_reader_server.py): the poll loop appends the identifiers a    *)
(* reader returns to a bounded per-reader detection history and            *)
(* process_card_stability turns the last 10 s of that history into the     *)
(* reader's stable hand and its STATE projection.                          *)
(*                                                                         *)
(* Instants are whole seconds.  Identifiers are the integers of UIDS,      *)
(* ordered as the hex strings the server compares; labels are integers.    *)
(***************************************************************************)
EXTENDS Integers, Sequences, FiniteSets, TLC

(* ------------------------------------------------------------------ *)
(* Program constants                                                  *)
(* ------------------------------------------------------------------ *)
CARD_STABILITY_TIME == 3
FOLD_DELAY_TIME == 5
MAX_HISTORY_SIZE == 50
\* the literal 10.0 of the recent-detections filter
RECENT_WINDOW == 10

\* Python's None; no instant, identifier or label of the model is -1
None == -1

(* ------------------------------------------------------------------ *)
(* Bounds of the model                                                *)
(* ------------------------------------------------------------------ *)
\* instant at which the poll thread starts
StartTime == 100
\* longest time from the start of one round to the start of the next (a round of
\* 12 readers takes 12 sampling windows of 450 ms and one sleep of 120 ms)
MaxDt == 6
\* rounds start no later than StartTime + MaxTime
MaxTime == 20
\* Spec: one tag in range of the reader, at most MaxDetections detections
\* appended in all
MaxDetections == 3
\* SpecDense: three tags, DenseDetections detections within DenseTime
DenseTime == 5
DenseDetections == 5
\* SpecPair: PairDetections detections within PairTime, from the start or after
\* WarmRounds rounds that each returned the same two tags
PairTime == 5
PairDetections == 4
WarmRounds == 25
\* SpecProbe: ProbesPerWindow probes in every sampling window, ProbeDetections
\* detections within ProbeTime
ProbesPerWindow == 2
ProbeTime == 4
ProbeDetections == 2
\* SpecRace: RaceRequests requests while the poll thread makes RaceDetections
\* detections within RaceTime
RaceTime == 18
RaceDetections == 2
RaceRequests == 1
\* SpecApi: ApiRequests /api/state requests and any number of /api/map and
\* /api/clear requests while ApiDetections detections are made within ApiTime
ApiTime == 8
ApiDetections == 2
ApiRequests == 1
\* SpecSeats: the poll thread step by step over two readers, each with a tag in
\* range, SeatsDetections detections within SeatsTime
SeatsTime == 5
SeatsDetections == 2
\* SpecFold: process_card_stability on an empty window, from clock readings
\* 0..FoldFirst up to FoldClock, the tag last detected BeforeEpoch before the
\* clock read 0
FoldFirst == 3
FoldClock == 12
BeforeEpoch == 20
\* SpecSample: sampling windows of SampleWindow clock ticks, a probe taking from
\* 1 to MaxProbeTicks of them
SampleWindow == 5
MaxProbeTicks == 2
\* SpecSpi: the SPI server's polls, at most SpiMaxDt apart, within SpiTime
SpiTime == 9
SpiMaxDt == 2

\* SpecRecord: the poll thread step by step between /api/map and /api/clear
\* requests, two tags in range of one reader, RecordDetections detections
\* within RecordTime
RecordTime == 2
RecordDetections == 3
\* SpecClock: rounds whose time.time() readings may step back by up to ClockStep,
\* ClockDetections detections within ClockTime
ClockTime == 5
ClockDetections == 2
ClockStep == 2
\* SpecCapacity: instants in milliseconds; CapacityRounds rounds, each from
\* window_ms + POLL_INTERVAL to TickSlack more after the one before, follow
\* WarmRounds rounds that each returned the same two tags
CapacityRounds == 3
TickSlack == 1
\* SpecPoker: the poker server's poll thread makes PokerPolls reads while
\* ServerThreads server threads handle PokerRequests /api/map and /api/clear
\* requests
PokerPolls == 2
PokerRequests == 2
ServerThreads == 2
\* identifiers a reader can return
UIDS == {1, 2, 3}
\* configured reader names (keys of table_config.json "readers"), all initialised,
\* in the order the poll loop visits them
ReaderOrder == <<"main", "player1">>
READERS == {ReaderOrder[i] : i \in 1..Len(ReaderOrder)}
\* the reader the claims are stated for
P == "main"

VARIABLES
    current_time,            \* poll_loop: time.time() of the latest round
    UID_TO_LABEL,            \* identifier -> label, None when unmapped
    CARD_DETECTION_HISTORY,  \* reader -> sequence of detections
    CURRENT_HANDS,           \* reader -> [cards, last_stable, fold_start]
    READER_STATE,            \* STATE: reader -> projection read by /api/state
    LAST_DETECTED_UID,
    detected,                \* reader -> detected_uids of the latest round
    run,                     \* reader -> identifier -> latest run of consecutive detections
    emptySince,              \* reader -> first round of the current stretch of empty windows
                             \* (kept for the readers with a tag in range)
    nDetections,             \* detections appended so far
    env,                     \* what the run may draw: [uids, seats, horizon, budget]
    mirror,                  \* the same rounds replayed with another arrival order
    probes,                  \* reader -> outcomes of the probes of the latest sampling window
    spi,                     \* the single-reader SPI server (pn532_spi_single_server.py)
    poker,                   \* the single-reader poker server (pn532_poker_server.py)
    thread,                  \* poll thread inside a round: the writes it has still to make
    request,                 \* the API request being served and its response so far
    stop_flag,
    poll                     \* the poll thread's position in poll_loop, reader by reader

vars == <<current_time, UID_TO_LABEL, CARD_DETECTION_HISTORY, CURRENT_HANDS,
          READER_STATE, LAST_DETECTED_UID, detected, run, emptySince, nDetections, env, mirror,
          probes, spi, poker, thread, request, stop_flag, poll>>

(* ------------------------------------------------------------------ *)
(* Sequences                                                          *)
(* ------------------------------------------------------------------ *)
Uids(cards) == [i \in 1..Len(cards) |-> cards[i].uid]

Range(s) == {s[i] : i \in 1..Len(s)}

Reverse(s) == [i \in 1..Len(s) |-> s[Len(s) + 1 - i]]

\* Python truthiness of an optional number: None and 0.0 are false
Truthy(x) == x # None /\ x # 0

\* outcomes of pn532.read_passive_target other than an identifier: the call
\* raised, or returned None
Raised == -2
NoCard == -3

(* ------------------------------------------------------------------ *)
(* up_to_two_cards                                                    *)
(* ------------------------------------------------------------------ *)
ProbeResultEscapes(outcome) == outcome

\* one probe inside its try/except: an exception is swallowed, nothing is counted
ProbeResult(outcome) == IF outcome = Raised THEN NoCard ELSE outcome

\* card_counts: one [uid, count] per identifier probed, in order of first probe
RECURSIVE CardCounts(_)
CardCounts(results) ==
    IF results = <<>> THEN <<>>
    ELSE LET uid == results[1]
             same == SelectSeq(results, LAMBDA x : x = uid)
             others == SelectSeq(results, LAMBDA x : x # uid)
         IN  IF uid = NoCard THEN CardCounts(others)
             ELSE <<[uid |-> uid, count |-> Len(same)]>> \o CardCounts(others)

\* Counter.most_common: by count, largest first, equal counts in order of first
\* probe
RECURSIVE ByCount(_)
ByCount(counts) ==
    IF counts = <<>> THEN <<>>
    ELSE LET sorted == ByCount(SubSeq(counts, 1, Len(counts) - 1))
             c == counts[Len(counts)]
             k == Cardinality({i \in 1..Len(sorted) : sorted[i].count >= c.count})
         IN  SubSeq(sorted, 1, k) \o <<c>> \o SubSeq(sorted, k + 1, Len(sorted))

FirstProbed(counts, n) ==
    SubSeq(counts, 1, IF Len(counts) < n THEN Len(counts) ELSE n)

MostCommon(counts, n) ==
    LET sorted == ByCount(counts)
    IN  SubSeq(sorted, 1, IF Len(sorted) < n THEN Len(sorted) ELSE n)

\* up_to_two_cards on a sampling window whose probes had these outcomes: the
\* identifiers returned, or raised = TRUE when an exception leaves the function
UpToTwoCards(outcomes) ==
    LET results == [i \in 1..Len(outcomes) |-> ProbeResult(outcomes[i])]
    IN  IF \E i \in 1..Len(results) : results[i] = Raised
        THEN [raised |-> TRUE, uids |-> <<>>]
        ELSE [raised |-> FALSE, uids |-> Uids(MostCommon(CardCounts(results), 2))]

\* what one call of up_to_two_cards can return when the tags in `uids` are in range
\* of the reader: at most 2 distinct identifiers, in any order
DetectedUids(uids) ==
    {<<>>} \cup {<<u>> : u \in uids} \cup {w \in uids \X uids : w[1] # w[2]}

(* ------------------------------------------------------------------ *)
(* process_card_stability                                             *)
(* ------------------------------------------------------------------ *)
AllDetections(history, t) == history

RecentDetectionsHalf(history, t) ==
    SelectSeq(history, LAMBDA d : 2 * (t - d.timestamp) <= RECENT_WINDOW)

\* recent_detections: the detections of the last 10 seconds, in history order
RecentDetections(history, t) ==
    SelectSeq(history, LAMBDA d : t - d.timestamp <= RECENT_WINDOW)

\* unique_cards: one card per identifier, in order of first appearance (the dict
\* keeps insertion order); the card keeps the label and timestamp of the
\* identifier's first recent detection, and last_seen is overwritten by every later
\* one, so it ends as the timestamp of the last
RECURSIVE UniqueCards(_)
UniqueCards(recent) ==
    IF recent = <<>> THEN <<>>
    ELSE LET detection == recent[1]
             same == SelectSeq(recent, LAMBDA d : d.uid = detection.uid)
             others == SelectSeq(recent, LAMBDA d : d.uid # detection.uid)
         IN  <<[uid |-> detection.uid,
                label |-> detection.label,
                first_seen |-> detection.timestamp,
                last_seen |-> same[Len(same)].timestamp]>> \o UniqueCards(others)

IsStableStrict(card, t) == (t - card.first_seen) > CARD_STABILITY_TIME

\* the test that puts a unique card among the stable cards
IsStable(card, t) == (t - card.first_seen) >= CARD_STABILITY_TIME

StableCards(unique, t) == SelectSeq(unique, LAMBDA card : IsStable(card, t))

SortByArrival(cards) == cards

\* stable_cards.sort(key=uid): a stable sort, by insertion
RECURSIVE SortByUid(_)
SortByUid(cards) ==
    IF cards = <<>> THEN <<>>
    ELSE LET sorted == SortByUid(SubSeq(cards, 1, Len(cards) - 1))
             card == cards[Len(cards)]
             k == Cardinality({i \in 1..Len(sorted) : sorted[i].uid <= card.uid})
         IN  SubSeq(sorted, 1, k) \o <<card>> \o SubSeq(sorted, k + 1, Len(sorted))

FoldDueAtOnce(hand, t) == Truthy(hand.fold_start)

FoldDueLate(hand, t) ==
    Truthy(hand.fold_start) /\ (t - hand.fold_start) >= FOLD_DELAY_TIME + 1

FoldDueEarly(hand, t) ==
    Truthy(hand.fold_start) /\ (t - hand.fold_start) >= FOLD_DELAY_TIME - 1

\* the elif of the no-recent-detections branch
FoldDue(hand, t) ==
    Truthy(hand.fold_start) /\ (t - hand.fold_start) >= FOLD_DELAY_TIME

EmptyHand == [cards |-> <<>>, last_stable |-> None, fold_start |-> None]

EmptyState == [uid |-> None, label |-> None, last_seen |-> None,
               hand_size |-> 0, hand_cards |-> <<>>]

NoRecentDetectionsAnyHand(hand, t) ==
    IF hand.fold_start = None
    THEN [hand EXCEPT !.fold_start = t]
    ELSE IF FoldDue(hand, t) /\ hand.cards # <<>>
         THEN EmptyHand
         ELSE hand

\* the no-recent-detections branch: start the fold timer, or fold, or nothing;
\* STATE is not written
NoRecentDetections(hand, t) ==
    IF hand.cards # <<>> /\ hand.fold_start = None
    THEN [hand EXCEPT !.fold_start = t]
    ELSE IF FoldDue(hand, t) /\ hand.cards # <<>>
         THEN EmptyHand
         ELSE hand

KeepFoldTimer(hand) == hand

\* "Reset fold timer"
ResetFoldTimer(hand) == [hand EXCEPT !.fold_start = None]

UpdateHandAlways(hand, stable_cards, t) ==
    [hand EXCEPT !.cards = stable_cards, !.last_stable = t]

\* "Update hand if changed"
UpdateHand(hand, stable_cards, t) ==
    IF Uids(stable_cards) # Uids(hand.cards)
    THEN [hand EXCEPT !.cards = stable_cards, !.last_stable = t]
    ELSE hand

UpdateStateFromLast(stable_cards, t) ==
    IF stable_cards # <<>>
    THEN [uid |-> stable_cards[Len(stable_cards)].uid,
          label |-> stable_cards[Len(stable_cards)].label,
          last_seen |-> t,
          hand_size |-> Len(stable_cards),
          hand_cards |-> stable_cards]
    ELSE EmptyState

\* "Update state"
UpdateState(stable_cards, t) ==
    IF stable_cards # <<>>
    THEN [uid |-> stable_cards[1].uid,
          label |-> stable_cards[1].label,
          last_seen |-> t,
          hand_size |-> Len(stable_cards),
          hand_cards |-> stable_cards]
    ELSE EmptyState

\* process_card_stability(reader_name, current_time) on the reader's history, hand
\* and STATE entry: the new hand and STATE entry
ProcessCardStability(history, hand, state, t) ==
    LET recent == RecentDetections(history, t)
    IN  IF recent = <<>>
        THEN [hand |-> NoRecentDetections(hand, t), state |-> state]
        ELSE LET stable_cards == SortByUid(StableCards(UniqueCards(recent), t))
             IN  [hand |-> UpdateHand(ResetFoldTimer(hand), stable_cards, t),
                  state |-> UpdateState(stable_cards, t)]

(* ------------------------------------------------------------------ *)
(* poll_loop                                                          *)
(* ------------------------------------------------------------------ *)
DetectionsReversed(uids, labels, t) ==
    [i \in 1..Len(uids) |->
        [uid |-> Reverse(uids)[i], label |-> labels[Reverse(uids)[i]], timestamp |-> t]]

DetectionsMappedOnly(uids, labels, t) ==
    LET mapped == SelectSeq(uids, LAMBDA u : labels[u] # None)
    IN  [i \in 1..Len(mapped) |->
            [uid |-> mapped[i], label |-> labels[mapped[i]], timestamp |-> t]]

\* the detections appended for detected_uids, labelled from the map as it is now
Detections(uids, labels, t) ==
    [i \in 1..Len(uids) |-> [uid |-> uids[i], label |-> labels[uids[i]], timestamp |-> t]]

TruncateTight(history) ==
    IF Len(history) > 34 THEN SubSeq(history, Len(history) - 33, Len(history)) ELSE history

TruncateShort(history) ==
    IF Len(history) > 3 THEN SubSeq(history, Len(history) - 2, Len(history)) ELSE history

TruncateOldestKept(history) ==
    IF Len(history) > MAX_HISTORY_SIZE THEN SubSeq(history, 1, MAX_HISTORY_SIZE) ELSE history

\* "Keep history manageable": history[-MAX_HISTORY_SIZE:]
Truncate(history) ==
    IF Len(history) > MAX_HISTORY_SIZE
    THEN SubSeq(history, Len(history) - MAX_HISTORY_SIZE + 1, Len(history))
    ELSE history

\* the body of the for loop for one reader: append, truncate, process stability
PollReader(history, hand, state, uids, labels, t) ==
    LET kept == Truncate(history \o Detections(uids, labels, t))
        out == ProcessCardStability(kept, hand, state, t)
    IN  [history |-> kept, hand |-> out.hand, state |-> out.state]

\* LAST_DETECTED_UID after the readers ReaderOrder[1..n] have been polled
RECURSIVE LastDetected(_, _, _)
LastDetected(det, last, n) ==
    IF n = 0 THEN last
    ELSE LET uids == det[ReaderOrder[n]]
         IN  IF uids # <<>> THEN uids[Len(uids)] ELSE LastDetected(det, last, n - 1)

NoRun == [from |-> None, to |-> None, clean |-> FALSE, prev_from |-> None, prev_to |-> None]

\* the run of consecutive rounds returning u that the round at t continues or starts;
\* a run is clean when it starts on an empty hand with no recent detection of u;
\* prev_from and prev_to are the first and last round of the run before it
NextRun(old, u, uids, history, hand, prev_t, t) ==
    IF u \notin Range(uids) THEN old
    ELSE IF old.to = prev_t /\ old.from # None THEN [old EXCEPT !.to = t]
    ELSE [from |-> t, to |-> t,
          clean |-> /\ hand.cards = <<>>
                    /\ \A i \in 1..Len(history) :
                          history[i].uid = u => t - history[i].timestamp > RECENT_WINDOW,
          prev_from |-> old.from, prev_to |-> old.to]

NextEmptySince(old, history, t) ==
    IF RecentDetections(history, t) # <<>> THEN None
    ELSE IF old = None THEN t ELSE old

(* ------------------------------------------------------------------ *)
(* The single-reader SPI server (pn532_spi_single_server.py)          *)
(* ------------------------------------------------------------------ *)
\* the SPI server's globals after module load: STATE["main"], LAST_DETECTED_UID,
\* CARD_DETECTION_HISTORY, CURRENT_HAND and poll_debug_count; now is the clock,
\* outcome the result of the latest read, failing_since the instant of the first
\* of the reads that have raised since the last one that did not, absent_since
\* the instant of the first of the reads that have returned nothing since the
\* last one that returned an identifier
SpiStart ==
    [state |-> [uid |-> None, label |-> None, last_seen |-> None],
     last_uid |-> None,
     history |-> <<>>,
     hand |-> [cards |-> <<>>, last_stable |-> None, fold_start |-> None],
     poll_debug_count |-> 0,
     now |-> StartTime,
     outcome |-> NoCard,
     failing_since |-> None,
     absent_since |-> None]

\* "if uid:" the read returned an identifier
SpiDetected(s, uid, labels, t) ==
    LET label == labels[uid]
        seen == [s EXCEPT !.state = [uid |-> uid, label |-> label, last_seen |-> t],
                          !.last_uid = uid,
                          !.history = Truncate(@ \o <<[uid |-> uid, label |-> label,
                                                       timestamp |-> t]>>)]
    IN  IF s.hand.cards = <<>> \/ uid \notin Range(Uids(s.hand.cards))
        THEN [seen EXCEPT !.hand = [cards |-> s.hand.cards \o
                                       <<[uid |-> uid, label |-> label, first_seen |-> t]>>,
                                    last_stable |-> t,
                                    fold_start |-> None]]
        ELSE [seen EXCEPT !.hand.last_stable = t, !.hand.fold_start = None]

SpiNoCardAtDelay(s, t) ==
    LET started == IF s.hand.fold_start = None
                   THEN [s.hand EXCEPT !.fold_start = t]
                   ELSE s.hand
        hand == IF s.hand.cards = <<>> THEN s.hand
                ELSE IF t - started.fold_start >= FOLD_DELAY_TIME
                     THEN [started EXCEPT !.cards = <<>>, !.fold_start = None]
                     ELSE started
    IN  [s EXCEPT !.hand = hand,
                  !.state = [uid |-> None, label |-> None, last_seen |-> t],
                  !.last_uid = None]

\* "else:" the read returned nothing
SpiNoCard(s, t) ==
    LET started == IF s.hand.fold_start = None
                   THEN [s.hand EXCEPT !.fold_start = t]
                   ELSE s.hand
        hand == IF s.hand.cards = <<>> THEN s.hand
                ELSE IF t - started.fold_start > FOLD_DELAY_TIME
                     THEN [started EXCEPT !.cards = <<>>, !.fold_start = None]
                     ELSE started
    IN  [s EXCEPT !.hand = hand,
                  !.state = [uid |-> None, label |-> None, last_seen |-> t],
                  !.last_uid = None]

\* one iteration of the SPI poll loop at instant t: the read raises (the except
\* clause only prints and sleeps), returns nothing, or returns an identifier
SpiPoll(s, outcome, labels, t) ==
    LET counted == [s EXCEPT !.poll_debug_count = @ + 1,
                             !.now = t,
                             !.outcome = outcome,
                             !.failing_since = IF outcome # Raised THEN None
                                               ELSE IF @ = None THEN t ELSE @,
                             !.absent_since = IF outcome = Raised THEN @
                                              ELSE IF outcome # NoCard THEN None
                                              ELSE IF @ = None THEN t ELSE @]
    IN  IF outcome = Raised THEN counted
        ELSE IF outcome = NoCard THEN SpiNoCard(counted, t)
        ELSE SpiDetected(counted, outcome, labels, t)

(* ------------------------------------------------------------------ *)
(* The single-reader poker server (pn532_poker_server.py)             *)
(* ------------------------------------------------------------------ *)
\* the threads of the HTTP server (app.run handles each request in a thread of
\* its own)
HANDLERS == 1..ServerThreads

\* a server thread with no request: op is the handler it runs, uid and label
\* are the handler's locals, response the status of the thread's latest response
NoHandler == [pc |-> "idle", op |-> "none", uid |-> None, label |-> None, response |-> None]

\* the poker server's globals after module load (card_map.json maps identifier
\* 1; state is STATE[reader_name]), and its poll thread at the top of the while loop: pc is the thread's
\* position, last_uid, uhex and label are poll_loop's locals, now is the clock
PokerStart ==
    [UID_TO_LABEL |-> [u \in UIDS |-> IF u = 1 THEN 1 ELSE None],
     state |-> [uid |-> None, label |-> None, last_seen |-> None],
     pc |-> "read",
     last_uid |-> None,
     uhex |-> None,
     label |-> None,
     now |-> StartTime,
     served |-> 0,
     handler |-> [h \in HANDLERS |-> NoHandler]]

\* STATE[reader_name].update({"uid": uhex, "label": label, "last_seen": ...})
PokerStateUpdate(state, uhex, label, t) ==
    [uid |-> uhex, label |-> label, last_seen |-> IF uhex # None THEN t ELSE None]

\* "label in UID_TO_LABEL.values()"
LabelInUse(map, label) == \E u \in DOMAIN map : map[u] = label

\* the poll thread between two rounds
Idle == [pending |-> <<>>,
         goal |-> [r \in READERS |-> [hand |-> EmptyHand, state |-> EmptyState]]]

\* no request has been served yet
NoRequest == [pc |-> "idle", served |-> 0,
              hand_cards |-> <<>>, hand_size |-> 0, last_stable |-> None,
              fold_start |-> None, is_stable |-> FALSE, state |-> <<>>]

\* the poll thread before its first "while not stop_flag" test: pc is its position
\* in poll_loop, i the index of the reader of the for loop, step the part of the
\* loop body it is about to run, tick the number of rounds begun, monotonic the
\* time.monotonic() ticks since the sampling window it is in began; appended and
\* recomputed give, per reader, the latest tick whose detections were appended
\* and whose process_card_stability returned; rounds_after_stop and
\* polls_after_stop count the rounds begun and the sampling windows taken since
\* stop_flag was set
NotStarted ==
    [pc |-> "while", i |-> 0, step |-> 0, tick |-> 0, monotonic |-> 0,
     appended |-> [r \in READERS |-> 0],
     recomputed |-> [r \in READERS |-> 0],
     rounds_after_stop |-> 0,
     polls_after_stop |-> [r \in READERS |-> 0]]

\* the state after module load, the poll thread about to start
Start(e) ==
    /\ current_time = StartTime
    /\ UID_TO_LABEL = [u \in UIDS |-> IF u = 1 THEN 1 ELSE None]
    /\ CARD_DETECTION_HISTORY = [r \in READERS |-> <<>>]
    /\ CURRENT_HANDS = [r \in READERS |-> EmptyHand]
    /\ READER_STATE = [r \in READERS |-> EmptyState]
    /\ LAST_DETECTED_UID = None
    /\ detected = [r \in READERS |-> <<>>]
    /\ run = [r \in READERS |-> [u \in UIDS |-> NoRun]]
    /\ emptySince = [r \in READERS |-> None]
    /\ nDetections = 0
    /\ env = e
    /\ mirror = [history |-> [r \in READERS |-> <<>>],
                 hands |-> [r \in READERS |-> EmptyHand],
                 state |-> [r \in READERS |-> EmptyState]]
    /\ probes = [r \in READERS |-> <<>>]
    /\ spi = SpiStart
    /\ poker = PokerStart
    /\ thread = Idle
    /\ request = NoRequest
    /\ stop_flag = FALSE
    /\ poll = NotStarted

Init == Start([uids |-> {1}, seats |-> {P}, horizon |-> MaxTime, budget |-> MaxDetections])

InitDense == Start([uids |-> UIDS, seats |-> {P}, horizon |-> DenseTime, budget |-> DenseDetections])

Sum(f) ==
    LET RECURSIVE S(_)
        S(n) == IF n = 0 THEN 0 ELSE Len(f[ReaderOrder[n]]) + S(n - 1)
    IN  S(Len(ReaderOrder))

\* what the readers can return in one round: a reader with no tag in range
\* returns nothing
RoundDetections ==
    {[r \in READERS |-> IF r \in env.seats THEN det[r] ELSE <<>>] :
        det \in [env.seats -> DetectedUids(env.uids)]}

\* what the body of the for loop leaves for each reader in the round at t in which
\* reader r returns det[r]; for a reader in `escaped` up_to_two_cards raised
\* instead, and the except clause of the loop body skips the rest of the body
Polled(t, det, escaped) ==
    [r \in READERS |->
        IF r \in escaped
        THEN [history |-> CARD_DETECTION_HISTORY[r], hand |-> CURRENT_HANDS[r],
              state |-> READER_STATE[r]]
        ELSE PollReader(CARD_DETECTION_HISTORY[r], CURRENT_HANDS[r],
                        READER_STATE[r], det[r], UID_TO_LABEL, t)]

\* one iteration of the while loop at t, but for its writes to CURRENT_HANDS and
\* STATE
RoundAt(t, det, out) ==
    /\ t <= StartTime + env.horizon
    /\ nDetections + Sum(det) <= env.budget
    /\ current_time' = t
    /\ CARD_DETECTION_HISTORY' = [r \in READERS |-> out[r].history]
    /\ LAST_DETECTED_UID' = LastDetected(det, LAST_DETECTED_UID, Len(ReaderOrder))
    /\ detected' = det
    /\ run' = [r \in READERS |-> [u \in UIDS |->
                  NextRun(run[r][u], u, det[r], CARD_DETECTION_HISTORY[r],
                          CURRENT_HANDS[r], current_time, t)]]
    /\ emptySince' = [r \in READERS |->
                         IF r \in env.seats
                         THEN NextEmptySince(emptySince[r], out[r].history, t)
                         ELSE emptySince[r]]
    /\ nDetections' = nDetections + Sum(det)
    /\ UNCHANGED <<UID_TO_LABEL, env>>

\* one iteration of the while loop, dt after the previous one
Round(dt, det, escaped) ==
    LET out == Polled(current_time + dt, det, escaped)
    IN  /\ RoundAt(current_time + dt, det, out)
        /\ CURRENT_HANDS' = [r \in READERS |-> out[r].hand]
        /\ READER_STATE' = [r \in READERS |-> out[r].state]

PollRound ==
    \E dt \in 1..MaxDt, det \in RoundDetections :
        Round(dt, det, {}) /\ UNCHANGED <<mirror, probes, spi, poker, thread, request, stop_flag, poll>>

Next == PollRound

Spec == Init /\ [][Next]_vars

SpecDense == InitDense /\ [][Next]_vars

(* ------------------------------------------------------------------ *)
(* Two runs fed the same identifiers in different arrival orders      *)
(* ------------------------------------------------------------------ *)
\* a reader after the rounds k..n, one second apart, that each returned uids
RECURSIVE Warm(_, _, _, _, _)
Warm(w, k, n, uids, labels) ==
    IF Len(w.history) >= 0 /\ k > n THEN w
    ELSE Warm(PollReader(w.history, w.hand, w.state, uids, labels, StartTime + k),
              k + 1, n, uids, labels)

Fresh == [history |-> <<>>, hand |-> EmptyHand, state |-> EmptyState]

\* the state after n such rounds returning <<1, 2>>, the mirror run having been
\* given <<2, 1>>
StartWarm(n, e) ==
    LET labels == [u \in UIDS |-> IF u = 1 THEN 1 ELSE None]
        w == Warm(Fresh, 1, n, <<1, 2>>, labels)
        m == Warm(Fresh, 1, n, <<2, 1>>, labels)
    IN  /\ current_time = StartTime + n
        /\ UID_TO_LABEL = labels
        /\ CARD_DETECTION_HISTORY = [r \in READERS |-> w.history]
        /\ CURRENT_HANDS = [r \in READERS |-> w.hand]
        /\ READER_STATE = [r \in READERS |-> w.state]
        /\ LAST_DETECTED_UID = 2
        /\ detected = [r \in READERS |-> <<1, 2>>]
        /\ run = [r \in READERS |-> [u \in UIDS |->
                     IF u \in {1, 2}
                     THEN [from |-> StartTime + 1, to |-> StartTime + n, clean |-> TRUE,
                           prev_from |-> None, prev_to |-> None]
                     ELSE NoRun]]
        /\ emptySince = [r \in READERS |-> None]
        /\ nDetections = 0
        /\ env = e
        /\ mirror = [history |-> [r \in READERS |-> m.history],
                     hands |-> [r \in READERS |-> m.hand],
                     state |-> [r \in READERS |-> m.state]]
        /\ probes = [r \in READERS |-> <<>>]
        /\ spi = SpiStart
        /\ poker = PokerStart
        /\ thread = Idle
        /\ request = NoRequest
        /\ stop_flag = FALSE
        /\ poll = NotStarted

InitPair ==
    \/ Start([uids |-> {1, 2}, seats |-> {P}, horizon |-> PairTime, budget |-> PairDetections])
    \/ StartWarm(WarmRounds, [uids |-> {1, 2}, seats |-> {P}, horizon |-> WarmRounds + PairTime,
                              budget |-> PairDetections])

\* the orders in which the same identifiers can arrive
Orders(uids) == {uids, Reverse(uids)}

PollRoundPair ==
    \E dt \in 1..MaxDt, det \in RoundDetections :
        \E det2 \in RoundDetections :
            /\ \A r \in READERS : det2[r] \in Orders(det[r])
            /\ Round(dt, det, {})
            /\ mirror' =
                 LET out == [r \in READERS |->
                                PollReader(mirror.history[r], mirror.hands[r],
                                           mirror.state[r], det2[r], UID_TO_LABEL,
                                           current_time + dt)]
                 IN  [history |-> [r \in READERS |-> out[r].history],
                      hands |-> [r \in READERS |-> out[r].hand],
                      state |-> [r \in READERS |-> out[r].state]]
            /\ UNCHANGED <<probes, spi, poker, thread, request, stop_flag, poll>>

NextPair == PollRoundPair

SpecPair == InitPair /\ [][NextPair]_vars

(* ------------------------------------------------------------------ *)
(* Rounds drawn probe by probe                                        *)
(* ------------------------------------------------------------------ *)
InitProbe == Start([uids |-> {1, 2}, seats |-> {P}, horizon |-> ProbeTime, budget |-> ProbeDetections])

\* the outcomes of the ProbesPerWindow probes of one sampling window
ProbeWindows(uids) == [1..ProbesPerWindow -> {Raised, NoCard} \cup uids]

\* the probes of one round: those of a reader with no tag in range see nothing
RoundProbes ==
    {[r \in READERS |-> IF r \in env.seats THEN outcomes[r]
                        ELSE [i \in 1..ProbesPerWindow |-> NoCard]] :
        outcomes \in [env.seats -> ProbeWindows(env.uids)]}

PollRoundProbes ==
    \E dt \in 1..MaxDt, outcomes \in RoundProbes :
        LET ret == [r \in READERS |-> UpToTwoCards(outcomes[r])]
        IN  /\ Round(dt, [r \in READERS |-> ret[r].uids], {r \in READERS : ret[r].raised})
            /\ probes' = outcomes
            /\ UNCHANGED <<mirror, spi, poker, thread, request, stop_flag, poll>>

NextProbe == PollRoundProbes

SpecProbe == InitProbe /\ [][NextProbe]_vars

(* ------------------------------------------------------------------ *)
(* The poll thread write by write, and /api/current_hand read by read *)
(* ------------------------------------------------------------------ *)
\* the assignments process_card_stability makes for reader r, in program order
Writes(r, history, hand, t) ==
    LET recent == RecentDetections(history, t)
        stable_cards == SortByUid(StableCards(UniqueCards(recent), t))
    IN  IF recent = <<>>
        THEN IF hand.cards # <<>> /\ hand.fold_start = None
             THEN <<[reader |-> r, field |-> "fold_start", value |-> t]>>
             ELSE IF FoldDue(hand, t) /\ hand.cards # <<>>
                  THEN <<[reader |-> r, field |-> "cards", value |-> <<>>],
                         [reader |-> r, field |-> "last_stable", value |-> None],
                         [reader |-> r, field |-> "fold_start", value |-> None]>>
                  ELSE <<>>
        ELSE <<[reader |-> r, field |-> "fold_start", value |-> None]>>
             \o (IF Uids(stable_cards) # Uids(hand.cards)
                 THEN <<[reader |-> r, field |-> "cards", value |-> stable_cards],
                        [reader |-> r, field |-> "last_stable", value |-> t]>>
                 ELSE <<>>)
             \o <<[reader |-> r, field |-> "STATE", value |-> UpdateState(stable_cards, t)]>>

\* the writes of a whole round, reader after reader (each reader's history is
\* appended to and cut just before its process_card_stability; no request reads
\* the history)
RECURSIVE RoundWrites(_, _, _)
RoundWrites(out, t, n) ==
    IF n = 0 THEN <<>>
    ELSE LET r == ReaderOrder[n]
         IN  RoundWrites(out, t, n - 1) \o Writes(r, out[r].history, CURRENT_HANDS[r], t)

InitRace == Start([uids |-> {1}, seats |-> {P}, horizon |-> RaceTime, budget |-> RaceDetections])

\* the poll thread starts a round: it samples the readers and records the
\* detections; the writes to the hands and to STATE are still to come.  A request
\* takes far less than the sampling window of a round, so none is in progress
\* across the start of a round.
RoundBegin ==
    \E dt \in 1..MaxDt, det \in RoundDetections :
        LET t == current_time + dt
            out == Polled(t, det, {})
        IN  /\ Len(thread.pending) = 0
            /\ request.pc \in {"idle", "done"}
            /\ RoundAt(t, det, out)
            /\ thread' = [pending |-> RoundWrites(out, t, Len(ReaderOrder)),
                          goal |-> [r \in READERS |-> [hand |-> out[r].hand,
                                                       state |-> out[r].state]]]
            /\ UNCHANGED <<CURRENT_HANDS, READER_STATE, mirror, probes, spi, poker, request, stop_flag, poll>>

\* the poll thread makes its next write
ThreadWrite ==
    /\ Len(thread.pending) > 0
    /\ LET w == thread.pending[1]
       IN  /\ IF w.field = "STATE"
              THEN /\ READER_STATE' = [READER_STATE EXCEPT ![w.reader] = w.value]
                   /\ UNCHANGED CURRENT_HANDS
              ELSE /\ CURRENT_HANDS' = [CURRENT_HANDS EXCEPT ![w.reader][w.field] = w.value]
                   /\ UNCHANGED READER_STATE
           /\ thread' = [thread EXCEPT !.pending = Tail(@)]
    /\ UNCHANGED <<current_time, UID_TO_LABEL, CARD_DETECTION_HISTORY, LAST_DETECTED_UID,
                   detected, run, emptySince, nDetections, env, mirror, probes, spi, poker,
                   request, stop_flag, poll>>

\* a step of a request leaves the server's state alone
RequestStep ==
    UNCHANGED <<current_time, UID_TO_LABEL, CARD_DETECTION_HISTORY, CURRENT_HANDS,
                READER_STATE, LAST_DETECTED_UID, detected, run, emptySince, nDetections,
                env, mirror, probes, spi, poker, thread, stop_flag, poll>>

\* get_current_hand builds its response field by field, each from a fresh read
\* of CURRENT_HANDS["main"]
ReadHandCards ==
    /\ request.pc \in {"idle", "done"}
    /\ request.served < RaceRequests
    /\ request' = [NoRequest EXCEPT !.pc = "hand_size",
                                    !.served = request.served + 1,
                                    !.hand_cards = CURRENT_HANDS[P].cards]
    /\ RequestStep

ReadHandSize ==
    /\ request.pc = "hand_size"
    /\ request' = [request EXCEPT !.pc = "last_stable",
                                  !.hand_size = Len(CURRENT_HANDS[P].cards)]
    /\ RequestStep

ReadLastStable ==
    /\ request.pc = "last_stable"
    /\ request' = [request EXCEPT !.pc = "fold_start",
                                  !.last_stable = CURRENT_HANDS[P].last_stable]
    /\ RequestStep

ReadFoldStart ==
    /\ request.pc = "fold_start"
    /\ request' = [request EXCEPT !.pc = "is_stable",
                                  !.fold_start = CURRENT_HANDS[P].fold_start]
    /\ RequestStep

ReadIsStable ==
    /\ request.pc = "is_stable"
    /\ request' = [request EXCEPT !.pc = "done",
                                  !.is_stable = (Len(CURRENT_HANDS[P].cards) > 0)]
    /\ RequestStep

NextRace ==
    \/ RoundBegin
    \/ ThreadWrite
    \/ ReadHandCards
    \/ ReadHandSize
    \/ ReadLastStable
    \/ ReadFoldStart
    \/ ReadIsStable

SpecRace == InitRace /\ [][NextRace]_vars

(* ------------------------------------------------------------------ *)
(* The API: /api/map, /api/clear, /api/state                          *)
(* ------------------------------------------------------------------ *)
\* labels a request can give
LABELS == {1, 2}

\* the identifier u spelled in lower case is u + LowerCase
LowerCase == 10

\* str.upper() on an identifier
Upper(uid) == IF uid >= LowerCase THEN uid - LowerCase ELSE uid

\* the "uid" a request body can carry for the tags in uids: missing, or the
\* identifier in upper or lower case
BodyUids(uids) == {None} \cup uids \cup {u + LowerCase : u \in uids}

InitApi == Start([uids |-> {1}, seats |-> {P}, horizon |-> ApiTime, budget |-> ApiDetections])

PollRoundApi ==
    \E dt \in 1..MaxDt, det \in RoundDetections :
        Round(dt, det, {}) /\ UNCHANGED <<mirror, probes, spi, poker, thread, request, stop_flag, poll>>

\* POST /api/map: 400 without uid or label; else the map gets the label (and is
\* saved), and the label of every STATE entry showing that identifier is overwritten
MapUid ==
    \E body_uid \in BodyUids(env.uids), label \in LABELS \cup {None} :
        LET uid == IF body_uid = None THEN None ELSE Upper(body_uid)
        IN  /\ IF uid = None \/ label = None
               THEN UNCHANGED <<UID_TO_LABEL, READER_STATE>>
               ELSE /\ UID_TO_LABEL' = [UID_TO_LABEL EXCEPT ![uid] = label]
                    /\ READER_STATE' =
                         [r \in READERS |->
                            IF READER_STATE[r].uid # None /\ Upper(READER_STATE[r].uid) = uid
                            THEN [READER_STATE[r] EXCEPT !.label = label]
                            ELSE READER_STATE[r]]
            /\ UNCHANGED <<current_time, CARD_DETECTION_HISTORY, CURRENT_HANDS,
                           LAST_DETECTED_UID, detected, run, emptySince, nDetections, env,
                           mirror, probes, spi, poker, thread, request, stop_flag, poll>>

\* POST /api/clear: 400 without uid; else the identifier is dropped from the map
ClearUid ==
    \E body_uid \in BodyUids(env.uids) :
        /\ IF body_uid = None
           THEN UNCHANGED UID_TO_LABEL
           ELSE UID_TO_LABEL' = [UID_TO_LABEL EXCEPT ![Upper(body_uid)] = None]
        /\ UNCHANGED <<current_time, CARD_DETECTION_HISTORY, CURRENT_HANDS, READER_STATE,
                       LAST_DETECTED_UID, detected, run, emptySince, nDetections, env,
                       mirror, probes, spi, poker, thread, request, stop_flag, poll>>

\* GET /api/state: the response is STATE as it is
GetState ==
    /\ request.served < ApiRequests
    /\ request' = [request EXCEPT !.pc = "done", !.served = @ + 1, !.state = READER_STATE]
    /\ RequestStep

NextApi ==
    \/ PollRoundApi
    \/ MapUid
    \/ ClearUid
    \/ GetState

SpecApi == InitApi /\ [][NextApi]_vars

(* ------------------------------------------------------------------ *)
(* The SPI server's poll thread                                       *)
(* ------------------------------------------------------------------ *)
InitSpi == Start([uids |-> {1, 2}, seats |-> {P}, horizon |-> SpiTime, budget |-> 0])

SpiPollStep ==
    \E dt \in 1..SpiMaxDt, outcome \in {Raised, NoCard} \cup env.uids :
        /\ spi.now + dt <= StartTime + env.horizon
        /\ spi' = SpiPoll(spi, outcome, UID_TO_LABEL, spi.now + dt)
        /\ UNCHANGED <<current_time, UID_TO_LABEL, CARD_DETECTION_HISTORY, CURRENT_HANDS,
                       READER_STATE, LAST_DETECTED_UID, detected, run, emptySince,
                       nDetections, env, mirror, probes, poker, thread, request, stop_flag,
                       poll>>

NextSpi == SpiPollStep

SpecSpi == InitSpi /\ [][NextSpi]_vars

(* ------------------------------------------------------------------ *)
(* The poll thread reader by reader, and shutdown                     *)
(* ------------------------------------------------------------------ *)
StoreAll(table, reader_name, value) == [r \in DOMAIN table |-> value]

\* TABLE[reader_name] = value, and the in-place updates of TABLE[reader_name]
Store(table, reader_name, value) == [table EXCEPT ![reader_name] = value]

BodyOrderSwapped == <<"recompute", "append">>

\* the loop body: sample and append (with the cut to MAX_HISTORY_SIZE), then
\* process_card_stability
BodyOrder == <<"append", "recompute">>

NeverStopping(flag) == FALSE

\* "while not stop_flag": the loop is left when the flag is set
Stopping(flag) == flag

InitSeats ==
    Start([uids |-> {1}, seats |-> READERS, horizon |-> SeatsTime, budget |-> SeatsDetections])

\* the poll thread's position after the part of the loop body it has just run
Advance(p) ==
    IF p.step < Len(BodyOrder) THEN [p EXCEPT !.step = @ + 1]
    ELSE IF p.i < Len(ReaderOrder) THEN [p EXCEPT !.i = @ + 1, !.step = 1]
    ELSE [p EXCEPT !.pc = "sleep", !.i = 0, !.step = 0]

\* the while test; when it passes, current_time = time.time() and the for loop
\* starts
LoopTest ==
    /\ poll.pc = "while"
    /\ IF Stopping(stop_flag)
       THEN /\ poll' = [poll EXCEPT !.pc = "stopped"]
            /\ UNCHANGED current_time
       ELSE \E dt \in 1..MaxDt :
                /\ current_time + dt <= StartTime + env.horizon
                /\ current_time' = current_time + dt
                /\ poll' = [poll EXCEPT !.pc = "body", !.i = 1, !.step = 1,
                                        !.tick = @ + 1,
                                        !.rounds_after_stop = IF stop_flag THEN @ + 1 ELSE @]
    /\ UNCHANGED <<UID_TO_LABEL, CARD_DETECTION_HISTORY, CURRENT_HANDS, READER_STATE,
                   LAST_DETECTED_UID, detected, run, emptySince, nDetections, env, mirror,
                   probes, spi, poker, thread, request, stop_flag>>

\* up_to_two_cards for the reader of the for loop, the append of what it
\* returned and the cut of the history
ReaderAppend ==
    /\ poll.pc = "body"
    /\ BodyOrder[poll.step] = "append"
    /\ LET r == ReaderOrder[poll.i]
       IN  \E uids \in (IF r \in env.seats THEN DetectedUids(env.uids) ELSE {<<>>}) :
               /\ nDetections + Len(uids) <= env.budget
               /\ CARD_DETECTION_HISTORY' =
                     Store(CARD_DETECTION_HISTORY, r,
                           Truncate(CARD_DETECTION_HISTORY[r]
                                      \o Detections(uids, UID_TO_LABEL, current_time)))
               /\ LAST_DETECTED_UID' = IF uids # <<>> THEN uids[Len(uids)]
                                       ELSE LAST_DETECTED_UID
               /\ detected' = [detected EXCEPT ![r] = uids]
               /\ nDetections' = nDetections + Len(uids)
               /\ poll' = Advance([poll EXCEPT
                                     !.appended[r] = poll.tick,
                                     !.polls_after_stop[r] = IF stop_flag THEN @ + 1 ELSE @])
    /\ UNCHANGED <<current_time, UID_TO_LABEL, CURRENT_HANDS, READER_STATE, run, emptySince,
                   env, mirror, probes, spi, poker, thread, request, stop_flag>>

\* process_card_stability(reader_name, current_time) for the reader of the for
\* loop
ReaderRecompute ==
    /\ poll.pc = "body"
    /\ BodyOrder[poll.step] = "recompute"
    /\ LET r == ReaderOrder[poll.i]
           out == ProcessCardStability(CARD_DETECTION_HISTORY[r], CURRENT_HANDS[r],
                                       READER_STATE[r], current_time)
       IN  /\ CURRENT_HANDS' = Store(CURRENT_HANDS, r, out.hand)
           /\ READER_STATE' = Store(READER_STATE, r, out.state)
           /\ poll' = Advance([poll EXCEPT !.recomputed[r] = poll.tick])
    /\ UNCHANGED <<current_time, UID_TO_LABEL, CARD_DETECTION_HISTORY, LAST_DETECTED_UID,
                   detected, run, emptySince, nDetections, env, mirror, probes, spi, poker, thread,
                   request, stop_flag>>

\* time.sleep(POLL_INTERVAL), then back to the while test
Sleep ==
    /\ poll.pc = "sleep"
    /\ poll' = [poll EXCEPT !.pc = "while"]
    /\ UNCHANGED <<current_time, UID_TO_LABEL, CARD_DETECTION_HISTORY, CURRENT_HANDS,
                   READER_STATE, LAST_DETECTED_UID, detected, run, emptySince, nDetections,
                   env, mirror, probes, spi, poker, thread, request, stop_flag>>

\* the main thread leaves app.run: "finally: stop_flag = True"
SetStop ==
    /\ ~stop_flag
    /\ stop_flag' = TRUE
    /\ UNCHANGED <<current_time, UID_TO_LABEL, CARD_DETECTION_HISTORY, CURRENT_HANDS,
                   READER_STATE, LAST_DETECTED_UID, detected, run, emptySince, nDetections,
                   env, mirror, probes, spi, poker, thread, request, poll>>

\* the steps of the poll thread
PollThread ==
    \/ LoopTest
    \/ ReaderAppend
    \/ ReaderRecompute
    \/ Sleep

NextSeats ==
    \/ PollThread
    \/ SetStop

\* the poll thread is scheduled again and again, and each of its steps returns:
\* a sampling window ends after window_ms, a read after its timeout, the sleep
\* after POLL_INTERVAL
SpecSeats == InitSeats /\ [][NextSeats]_vars /\ WF_vars(PollThread)

(* ------------------------------------------------------------------ *)
(* process_card_stability on an empty window, for any fold_start      *)
(* ------------------------------------------------------------------ *)
\* the one detection of the history: tag 1, long before the window
OldDetection == [uid |-> 1, label |-> 1, timestamp |-> 0 - BeforeEpoch]

\* the hands process_card_stability can be called with at instant t when the
\* window is empty: no card and no timer, or the card of the old detection with
\* no timer or a timer started at any instant up to t
FoldHands(t) ==
    {EmptyHand} \cup
    {[cards |-> <<[uid |-> OldDetection.uid, label |-> OldDetection.label,
                   first_seen |-> OldDetection.timestamp,
                   last_seen |-> OldDetection.timestamp]>>,
      last_stable |-> OldDetection.timestamp + CARD_STABILITY_TIME,
      fold_start |-> fs] : fs \in {None} \cup 0..t}

InitFold ==
    \E t \in 0..FoldFirst : \E hand \in FoldHands(t) :
        /\ current_time = t
        /\ UID_TO_LABEL = [u \in UIDS |-> IF u = 1 THEN 1 ELSE None]
        /\ CARD_DETECTION_HISTORY = [r \in READERS |-> IF r = P THEN <<OldDetection>> ELSE <<>>]
        /\ CURRENT_HANDS = [r \in READERS |-> IF r = P THEN hand ELSE EmptyHand]
        /\ READER_STATE = [r \in READERS |->
                             IF r = P THEN UpdateState(hand.cards, OldDetection.timestamp
                                                                     + CARD_STABILITY_TIME)
                             ELSE EmptyState]
        /\ LAST_DETECTED_UID = OldDetection.uid
        /\ detected = [r \in READERS |-> <<>>]
        /\ run = [r \in READERS |-> [u \in UIDS |-> NoRun]]
        /\ emptySince = [r \in READERS |-> None]
        /\ nDetections = 0
        /\ env = [uids |-> {}, seats |-> {P}, horizon |-> FoldClock, budget |-> 0]
        /\ mirror = [history |-> [r \in READERS |-> <<>>],
                     hands |-> [r \in READERS |-> EmptyHand],
                     state |-> [r \in READERS |-> EmptyState]]
        /\ probes = [r \in READERS |-> <<>>]
        /\ spi = SpiStart
        /\ poker = PokerStart
        /\ thread = Idle
        /\ request = NoRequest
        /\ stop_flag = FALSE
        /\ poll = NotStarted

\* a round in which no reader returns anything, at a clock reading up to
\* env.horizon
QuietRound ==
    \E dt \in 1..MaxDt :
        LET t == current_time + dt
            out == Polled(t, [r \in READERS |-> <<>>], {})
        IN  /\ t <= env.horizon
            /\ current_time' = t
            /\ CARD_DETECTION_HISTORY' = [r \in READERS |-> out[r].history]
            /\ CURRENT_HANDS' = [r \in READERS |-> out[r].hand]
            /\ READER_STATE' = [r \in READERS |-> out[r].state]
            /\ detected' = [r \in READERS |-> <<>>]
            /\ emptySince' = [r \in READERS |->
                                 IF r \in env.seats
                                 THEN NextEmptySince(emptySince[r], out[r].history, t)
                                 ELSE emptySince[r]]
            /\ UNCHANGED <<UID_TO_LABEL, LAST_DETECTED_UID, run, nDetections, env, mirror,
                           probes, spi, poker, thread, request, stop_flag, poll>>

NextFold == QuietRound

SpecFold == InitFold /\ [][NextFold]_vars

(* ------------------------------------------------------------------ *)
(* up_to_two_cards probe by probe                                     *)
(* ------------------------------------------------------------------ *)
InitSample == Start([uids |-> UIDS, seats |-> {P}, horizon |-> 0, budget |-> 0])

\* what a step inside up_to_two_cards leaves alone
SamplingFrame ==
    UNCHANGED <<current_time, UID_TO_LABEL, CARD_DETECTION_HISTORY, CURRENT_HANDS,
                READER_STATE, LAST_DETECTED_UID, run, emptySince, nDetections, env, mirror,
                spi, poker, thread, request, stop_flag>>

\* the loop body calls up_to_two_cards(reader): card_counts is empty and t_end is
\* SampleWindow ticks ahead
CallUpToTwoCards ==
    /\ poll.pc = "while"
    /\ poll' = [poll EXCEPT !.pc = "sampling", !.monotonic = 0]
    /\ probes' = [probes EXCEPT ![P] = <<>>]
    /\ detected' = [detected EXCEPT ![P] = <<>>]
    /\ SamplingFrame

\* "while time.monotonic() < t_end": one more read_passive_target, which raises,
\* returns nothing or returns an identifier, and takes its time
Probe ==
    /\ poll.pc = "sampling"
    /\ poll.monotonic < SampleWindow
    /\ \E outcome \in {Raised, NoCard} \cup env.uids, ticks \in 1..MaxProbeTicks :
           /\ probes' = [probes EXCEPT ![P] = Append(@, outcome)]
           /\ poll' = [poll EXCEPT !.monotonic = @ + ticks]
    /\ UNCHANGED detected
    /\ SamplingFrame

\* the while test fails: return the most common two
Return ==
    /\ poll.pc = "sampling"
    /\ poll.monotonic >= SampleWindow
    /\ detected' = [detected EXCEPT ![P] = UpToTwoCards(probes[P]).uids]
    /\ poll' = [poll EXCEPT !.pc = "returned"]
    /\ UNCHANGED probes
    /\ SamplingFrame

\* the steps inside up_to_two_cards
Sampling ==
    \/ Probe
    \/ Return

NextSample ==
    \/ CallUpToTwoCards
    \/ Sampling

\* the thread inside the while loop of up_to_two_cards goes on running: every
\* read returns or raises within its timeout
SpecSample == InitSample /\ [][NextSample]_vars /\ WF_vars(Probe)

(* ------------------------------------------------------------------ *)
(* The poll thread's appends while the label map changes              *)
(* ------------------------------------------------------------------ *)
InitRecord ==
    Start([uids |-> {1, 2}, seats |-> {P}, horizon |-> RecordTime, budget |-> RecordDetections])

\* the poll thread step by step, and the requests that write the label map,
\* each between two of its steps
NextRecord ==
    \/ PollThread
    \/ MapUid
    \/ ClearUid

SpecRecord == InitRecord /\ [][NextRecord]_vars

(* ------------------------------------------------------------------ *)
(* Rounds under a system clock that can be set back                   *)
(* ------------------------------------------------------------------ *)
InitClock ==
    Start([uids |-> {1}, seats |-> {P}, horizon |-> ClockTime, budget |-> ClockDetections])

\* time.time() is the system clock: a reading is later than the one before, or,
\* when the clock has been set back in between, earlier
ClockReadings == {dt \in (0 - ClockStep)..MaxDt : dt # 0}

PollRoundClock ==
    \E dt \in ClockReadings, det \in RoundDetections :
        /\ current_time + dt >= StartTime
        /\ Round(dt, det, {})
        /\ UNCHANGED <<mirror, probes, spi, poker, thread, request, stop_flag, poll>>

NextClock == PollRoundClock

SpecClock == InitClock /\ [][NextClock]_vars

(* ------------------------------------------------------------------ *)
(* The history's capacity against the window, in milliseconds         *)
(* ------------------------------------------------------------------ *)
\* up_to_two_cards(pn532, window_ms=450, ...): the length of a sampling window
window_ms == 450
\* POLL_INTERVAL = 0.12 seconds, in milliseconds
POLL_INTERVAL == 120

\* a number of seconds in milliseconds
Ms(seconds) == 1000 * seconds

\* the least time from one reading of current_time to the next: one sampling
\* window and the sleep
MinTick == window_ms + POLL_INTERVAL

\* recent_detections, the stable cards and the no-recent-detections branch for
\* instants in milliseconds
RecentDetectionsMs(history, t) ==
    SelectSeq(history, LAMBDA d : t - d.timestamp <= Ms(RECENT_WINDOW))

StableCardsMs(unique, t) ==
    SelectSeq(unique, LAMBDA card : (t - card.first_seen) >= Ms(CARD_STABILITY_TIME))

NoRecentDetectionsMs(hand, t) ==
    IF hand.cards # <<>> /\ hand.fold_start = None
    THEN [hand EXCEPT !.fold_start = t]
    ELSE IF /\ Truthy(hand.fold_start)
            /\ (t - hand.fold_start) >= Ms(FOLD_DELAY_TIME)
            /\ hand.cards # <<>>
         THEN EmptyHand
         ELSE hand

\* process_card_stability for instants in milliseconds
ProcessCardStabilityMs(history, hand, state, t) ==
    LET recent == RecentDetectionsMs(history, t)
    IN  IF recent = <<>>
        THEN [hand |-> NoRecentDetectionsMs(hand, t), state |-> state]
        ELSE LET stable_cards == SortByUid(StableCardsMs(UniqueCards(recent), t))
             IN  [hand |-> UpdateHand(ResetFoldTimer(hand), stable_cards, t),
                  state |-> UpdateState(stable_cards, t)]

\* the loop body for one reader whose history is `kept` after the append and
\* the cut
PollReaderMs(kept, hand, state, t) ==
    LET out == ProcessCardStabilityMs(kept, hand, state, t)
    IN  [history |-> kept, hand |-> out.hand, state |-> out.state]

\* a reader after the rounds k..n, MinTick apart, that each returned uids; with
\* cut = FALSE its history has never been cut
RECURSIVE WarmMs(_, _, _, _, _, _)
WarmMs(w, k, n, uids, labels, cut) ==
    IF Len(w.history) >= 0 /\ k > n THEN w
    ELSE LET t == Ms(StartTime) + k * MinTick
             all == w.history \o Detections(uids, labels, t)
         IN  WarmMs(PollReaderMs(IF cut THEN Truncate(all) ELSE all, w.hand, w.state, t),
                    k + 1, n, uids, labels, cut)

\* the state after WarmRounds rounds that returned <<1, 2>>; mirror is the same
\* run with a history that is never cut
InitCapacity ==
    LET labels == [u \in UIDS |-> IF u = 1 THEN 1 ELSE None]
        w == WarmMs(Fresh, 1, WarmRounds, <<1, 2>>, labels, TRUE)
        m == WarmMs(Fresh, 1, WarmRounds, <<1, 2>>, labels, FALSE)
    IN  /\ current_time = Ms(StartTime) + WarmRounds * MinTick
        /\ UID_TO_LABEL = labels
        /\ CARD_DETECTION_HISTORY = [r \in READERS |-> IF r = P THEN w.history ELSE <<>>]
        /\ CURRENT_HANDS = [r \in READERS |-> IF r = P THEN w.hand ELSE EmptyHand]
        /\ READER_STATE = [r \in READERS |-> IF r = P THEN w.state ELSE EmptyState]
        /\ LAST_DETECTED_UID = 2
        /\ detected = [r \in READERS |-> IF r = P THEN <<1, 2>> ELSE <<>>]
        /\ run = [r \in READERS |-> [u \in UIDS |-> NoRun]]
        /\ emptySince = [r \in READERS |-> None]
        /\ nDetections = 0
        /\ env = [uids |-> {1, 2}, seats |-> {P}, horizon |-> CapacityRounds, budget |-> 0]
        /\ mirror = [history |-> [r \in READERS |-> IF r = P THEN m.history ELSE <<>>],
                     hands |-> [r \in READERS |-> IF r = P THEN m.hand ELSE EmptyHand],
                     state |-> [r \in READERS |-> IF r = P THEN m.state ELSE EmptyState]]
        /\ probes = [r \in READERS |-> <<>>]
        /\ spi = SpiStart
        /\ poker = PokerStart
        /\ thread = Idle
        /\ request = NoRequest
        /\ stop_flag = FALSE
        /\ poll = NotStarted

\* one iteration of the while loop, at least MinTick after the one before
CapacityRound ==
    \E gap \in MinTick..(MinTick + TickSlack), det \in RoundDetections :
        LET t == current_time + gap
            out == [r \in READERS |->
                       PollReaderMs(Truncate(CARD_DETECTION_HISTORY[r]
                                               \o Detections(det[r], UID_TO_LABEL, t)),
                                    CURRENT_HANDS[r], READER_STATE[r], t)]
            uncut == [r \in READERS |->
                         PollReaderMs(mirror.history[r] \o Detections(det[r], UID_TO_LABEL, t),
                                      mirror.hands[r], mirror.state[r], t)]
        IN  /\ poll.tick < env.horizon
            /\ current_time' = t
            /\ CARD_DETECTION_HISTORY' = [r \in READERS |-> out[r].history]
            /\ CURRENT_HANDS' = [r \in READERS |-> out[r].hand]
            /\ READER_STATE' = [r \in READERS |-> out[r].state]
            /\ LAST_DETECTED_UID' = LastDetected(det, LAST_DETECTED_UID, Len(ReaderOrder))
            /\ detected' = det
            /\ mirror' = [history |-> [r \in READERS |-> uncut[r].history],
                          hands |-> [r \in READERS |-> uncut[r].hand],
                          state |-> [r \in READERS |-> uncut[r].state]]
            /\ poll' = [poll EXCEPT !.tick = @ + 1]
            /\ UNCHANGED <<UID_TO_LABEL, run, emptySince, nDetections, env, probes, spi, poker,
                           thread, request, stop_flag>>

NextCapacity == CapacityRound

SpecCapacity == InitCapacity /\ [][NextCapacity]_vars

(* ------------------------------------------------------------------ *)
(* The poker server's poll thread and its /api/map and /api/clear     *)
(* handlers, statement by statement                                   *)
(* ------------------------------------------------------------------ *)
InitPoker == Start([uids |-> {1, 2}, seats |-> {P}, horizon |-> 0, budget |-> 0])

\* a step of the poker server leaves the 12-reader server alone
PokerFrame ==
    UNCHANGED <<current_time, UID_TO_LABEL, CARD_DETECTION_HISTORY, CURRENT_HANDS,
                READER_STATE, LAST_DETECTED_UID, detected, run, emptySince, nDetections,
                env, mirror, probes, spi, thread, request, stop_flag, poll>>

\* the read (an exception counts as no card), the formatting of the identifier
\* and "if uhex != last_uid": an unchanged identifier goes straight to the sleep
PokerRead ==
    /\ poker.pc = "read"
    /\ poker.now < StartTime + PokerPolls
    /\ \E outcome \in {Raised, NoCard} \cup env.uids :
           LET uhex == IF outcome \in {Raised, NoCard} THEN None ELSE outcome
           IN  poker' = [poker EXCEPT !.now = @ + 1,
                                      !.uhex = uhex,
                                      !.last_uid = uhex,
                                      !.pc = IF uhex # poker.last_uid THEN "get" ELSE "read"]
    /\ PokerFrame

\* label = UID_TO_LABEL.get(uhex)
PokerGet ==
    /\ poker.pc = "get"
    /\ poker' = [poker EXCEPT !.label = IF poker.uhex = None THEN None
                                        ELSE poker.UID_TO_LABEL[poker.uhex],
                              !.pc = "update"]
    /\ PokerFrame

\* STATE[reader_name].update(...), then the sleep
PokerUpdate ==
    /\ poker.pc = "update"
    /\ poker' = [poker EXCEPT !.state = PokerStateUpdate(@, poker.uhex, poker.label, poker.now),
                              !.pc = "read"]
    /\ PokerFrame

\* map_uid up to its first test: 400 without uid or label
MapBegin(h) ==
    /\ poker.handler[h].pc = "idle"
    /\ poker.served < PokerRequests
    /\ \E body_uid \in BodyUids(env.uids), label \in LABELS \cup {None} :
           LET uid == IF body_uid = None THEN None ELSE Upper(body_uid)
           IN  poker' = [poker EXCEPT
                   !.served = @ + 1,
                   !.handler[h] =
                       IF uid = None \/ label = None
                       THEN [NoHandler EXCEPT !.op = "map", !.response = 400]
                       ELSE [pc |-> "check", op |-> "map", uid |-> uid, label |-> label,
                             response |-> None]]
    /\ PokerFrame

\* "Check if card is already mapped to prevent duplicates"
MapCheck(h) ==
    /\ poker.handler[h].pc = "check"
    /\ poker' = [poker EXCEPT
           !.handler[h] = IF LabelInUse(poker.UID_TO_LABEL, @.label)
                          THEN [@ EXCEPT !.pc = "idle", !.response = 400]
                          ELSE [@ EXCEPT !.pc = "store"]]
    /\ PokerFrame

\* UID_TO_LABEL[uid] = label, and save_map
MapStore(h) ==
    /\ poker.handler[h].pc = "store"
    /\ poker' = [poker EXCEPT !.UID_TO_LABEL[poker.handler[h].uid] = poker.handler[h].label,
                              !.handler[h].pc = "test"]
    /\ PokerFrame

\* clear_uid up to the pop: 400 without uid
ClearBegin(h) ==
    /\ poker.handler[h].pc = "idle"
    /\ poker.served < PokerRequests
    /\ \E body_uid \in BodyUids(env.uids) :
           poker' = [poker EXCEPT
               !.served = @ + 1,
               !.handler[h] =
                   IF body_uid = None
                   THEN [NoHandler EXCEPT !.op = "clear", !.response = 400]
                   ELSE [pc |-> "pop", op |-> "clear", uid |-> Upper(body_uid),
                         label |-> None, response |-> None]]
    /\ PokerFrame

\* UID_TO_LABEL.pop(uid, None), and save_map
ClearPop(h) ==
    /\ poker.handler[h].pc = "pop"
    /\ poker' = [poker EXCEPT !.UID_TO_LABEL[poker.handler[h].uid] = None,
                              !.handler[h].pc = "test"]
    /\ PokerFrame

\* the backfill loop of map_uid and of clear_uid over the one entry of STATE:
\* 'if s["uid"] and s["uid"].upper() == uid'
BackfillTest(h) ==
    /\ poker.handler[h].pc = "test"
    /\ poker' = [poker EXCEPT
           !.handler[h] = IF poker.state.uid # None /\ Upper(poker.state.uid) = @.uid
                          THEN [@ EXCEPT !.pc = "write"]
                          ELSE [@ EXCEPT !.pc = "idle", !.response = 200]]
    /\ PokerFrame

\* 's["label"] = label' (None in clear_uid), and the response
BackfillWrite(h) ==
    /\ poker.handler[h].pc = "write"
    /\ poker' = [poker EXCEPT !.state.label = poker.handler[h].label,
                              !.handler[h].pc = "idle",
                              !.handler[h].response = 200]
    /\ PokerFrame

NextPoker ==
    \/ PokerRead
    \/ PokerGet
    \/ PokerUpdate
    \/ \E h \in HANDLERS : MapBegin(h)
    \/ \E h \in HANDLERS : MapCheck(h)
    \/ \E h \in HANDLERS : MapStore(h)
    \/ \E h \in HANDLERS : ClearBegin(h)
    \/ \E h \in HANDLERS : ClearPop(h)
    \/ \E h \in HANDLERS : BackfillTest(h)
    \/ \E h \in HANDLERS : BackfillWrite(h)

SpecPoker == InitPoker /\ [][NextPoker]_vars

(* ------------------------------------------------------------------ *)
(* Properties of reader P                                             *)
(* ------------------------------------------------------------------ *)
Hand == CURRENT_HANDS[P]

HandUids == Uids(CURRENT_HANDS[P].cards)

Projection == READER_STATE[P]

InHand(u) == u \in Range(HandUids)

\* u has been returned by every round from run[P][u].from up to the latest one
Running(u) == run[P][u].from # None /\ run[P][u].to = current_time

\* C1 (debounce-in): while u is returned by every round of a run that started at
\* t0 on an empty hand with no recent detection of u, u is in the stable hand
\* exactly when at least CARD_STABILITY_TIME has passed since t0.
DebounceIn ==
    \A u \in UIDS :
        Running(u) /\ run[P][u].clean =>
            (InHand(u) <=> current_time - run[P][u].from >= CARD_STABILITY_TIME)

\* the boundary case: a clean run exactly CARD_STABILITY_TIME old, its card stable
DebounceInAtBoundary ==
    \E u \in UIDS :
        /\ Running(u) /\ run[P][u].clean
        /\ current_time - run[P][u].from = CARD_STABILITY_TIME
        /\ InHand(u)

\* C2 (debounce-out), as claimed: from a hand of the single card u, a round that
\* returns nothing leaves the hand <<u>>, unless FOLD_DELAY_TIME has passed since
\* the first round that found the recent window empty, and then it empties it.
FoldAfterDelayOnly ==
    [][\A u \in UIDS :
          (HandUids = <<u>> /\ detected'[P] = <<>>) =>
              IF emptySince'[P] # None /\ current_time' - emptySince'[P] >= FOLD_DELAY_TIME
              THEN Uids(CURRENT_HANDS'[P].cards) = <<>>
              ELSE Uids(CURRENT_HANDS'[P].cards) = <<u>>]_vars

\* C3 (fold cancellation), as claimed: when u is in the hand, the fold timer runs
\* and has not expired, a round that returns u resets the timer and leaves u in
\* the hand.
FoldCancelKeepsCard ==
    [][\A u \in UIDS :
          (/\ InHand(u)
           /\ Hand.fold_start # None
           /\ current_time' - Hand.fold_start < FOLD_DELAY_TIME
           /\ u \in Range(detected'[P])) =>
              /\ CURRENT_HANDS'[P].fold_start = None
              /\ u \in Range(Uids(CURRENT_HANDS'[P].cards))]_vars

\* the scenario of C4: every detection the reader ever made is of u and belongs to
\* one run of consecutive rounds that lasted at least CARD_STABILITY_TIME
OneRunOnly(u) ==
    /\ CARD_DETECTION_HISTORY[P] # <<>>
    /\ run[P][u].from # None
    /\ run[P][u].to - run[P][u].from >= CARD_STABILITY_TIME
    /\ \A i \in 1..Len(CARD_DETECTION_HISTORY[P]) :
          /\ CARD_DETECTION_HISTORY[P][i].uid = u
          /\ CARD_DETECTION_HISTORY[P][i].timestamp >= run[P][u].from

\* C4, as claimed: in that scenario the fold timer is running (or the hand has
\* been folded) at every round after the last detection, started at a round after
\* the last detection and less than FOLD_DELAY_TIME ago.
FoldTimerStartsWithAbsence ==
    \A u \in UIDS :
        OneRunOnly(u) /\ current_time > run[P][u].to =>
            \/ Hand = EmptyHand
            \/ /\ HandUids = <<u>>
               /\ Hand.fold_start # None
               /\ Hand.fold_start > run[P][u].to
               /\ current_time - Hand.fold_start < FOLD_DELAY_TIME

\* C4, amended: in that scenario the hand is <<u>> with no fold timer as long as
\* the last detection is at most RECENT_WINDOW old; the timer starts at the first
\* round that finds the last detection older than that; the hand stays <<u>> while
\* the timer is younger than FOLD_DELAY_TIME and is empty from the first round at
\* which it is not.
FoldTimerStartsWithEmptyWindow ==
    \A u \in UIDS :
        OneRunOnly(u) =>
            IF current_time - run[P][u].to <= RECENT_WINDOW
            THEN /\ HandUids = <<u>>
                 /\ Hand.fold_start = None
                 /\ emptySince[P] = None
            ELSE /\ emptySince[P] # None
                 /\ emptySince[P] - run[P][u].to > RECENT_WINDOW
                 /\ IF current_time - emptySince[P] < FOLD_DELAY_TIME
                    THEN HandUids = <<u>> /\ Hand.fold_start = emptySince[P]
                    ELSE Hand = EmptyHand

\* the scenario has run to its end: the hand was folded
FoldedAfterOneRun ==
    \E u \in UIDS :
        /\ OneRunOnly(u)
        /\ emptySince[P] # None
        /\ current_time - emptySince[P] >= FOLD_DELAY_TIME
        /\ Hand = EmptyHand

\* C5 (hand-size bound), as claimed: the hand and the projection never hold more
\* than 2 cards.
HandSizeAtMostTwo ==
    Len(Hand.cards) <= 2 /\ Projection.hand_size <= 2

\* C6 (dual card), as claimed: when a < b have both been returned by every round
\* for at least CARD_STABILITY_TIME, the hand is exactly <<a, b>> and the
\* projection shows a with hand_size 2.
DualCardExactly ==
    \A a, b \in UIDS :
        (/\ a < b
         /\ Running(a) /\ current_time - run[P][a].from >= CARD_STABILITY_TIME
         /\ Running(b) /\ current_time - run[P][b].from >= CARD_STABILITY_TIME) =>
            /\ HandUids = <<a, b>>
            /\ Projection.uid = a
            /\ Projection.hand_size = 2

\* C7: the cards of every hand are in strictly ascending order of identifier (so
\* no identifier occurs twice).
HandAscending ==
    \A r \in READERS :
        LET uids == Uids(CURRENT_HANDS[r].cards)
        IN  \A i, j \in 1..Len(uids) : i < j => uids[i] < uids[j]

\* two cards became stable whose identifiers arrived in descending order
HandOfDescendingArrival ==
    /\ detected[P] = <<2, 1>>
    /\ HandUids = <<1, 2>>
    /\ Hand.last_stable = current_time

\* C8: a run given the same identifiers round by round, in another order within a
\* round, has the same hands and the same projections after every round.
ArrivalOrderIndependent ==
    /\ mirror.hands = CURRENT_HANDS
    /\ mirror.state = READER_STATE

\* the two runs got their identifiers in different orders, hold two stable cards,
\* and the histories, cut to MAX_HISTORY_SIZE, have lost different detections
OrdersDifferedAndTruncated ==
    /\ Len(CARD_DETECTION_HISTORY[P]) = MAX_HISTORY_SIZE
    /\ mirror.history[P] # CARD_DETECTION_HISTORY[P]
    /\ CARD_DETECTION_HISTORY[P][1].timestamp = mirror.history[P][1].timestamp
    /\ CARD_DETECTION_HISTORY[P][1].uid # mirror.history[P][1].uid
    /\ CARD_DETECTION_HISTORY[P][2].timestamp > CARD_DETECTION_HISTORY[P][1].timestamp
    /\ Len(Hand.cards) = 2

\* C9 (idempotence): process_card_stability called again with the same
\* current_time on the unchanged history leaves every hand and projection as the
\* round's call left it.
RecomputeIdempotent ==
    \A r \in READERS :
        ProcessCardStability(CARD_DETECTION_HISTORY[r], CURRENT_HANDS[r],
                             READER_STATE[r], current_time)
            = [hand |-> CURRENT_HANDS[r], state |-> READER_STATE[r]]

\* the round's call has just started the fold timer
FoldTimerJustStarted ==
    /\ Hand.cards # <<>>
    /\ Hand.fold_start = current_time

\* C10, as claimed: after every round the projection shows the stable hand: its
\* hand_size, the identifiers of its hand_cards, and its uid (the first card's, or
\* None).
ProjectionShowsHand ==
    /\ Projection.hand_size = Len(Hand.cards)
    /\ Uids(Projection.hand_cards) = HandUids
    /\ Projection.uid = IF Hand.cards = <<>> THEN None ELSE HandUids[1]

\* C11 (persistent read failure), as claimed: when every round has returned
\* nothing for so long that the recent window was found empty FOLD_DELAY_TIME ago
\* or more (the hand, if any, has been folded, and a round that returns nothing
\* changes nothing any more), the projection get_state returns for the reader is
\* empty: uid unset, hand_size 0, no hand_cards.
PersistentFailureShowsEmpty ==
    (/\ detected[P] = <<>>
     /\ emptySince[P] # None
     /\ current_time - emptySince[P] >= FOLD_DELAY_TIME) =>
        /\ Projection.uid = None
        /\ Projection.hand_size = 0
        /\ Projection.hand_cards = <<>>

\* a round that returns nothing to a reader at rest (window empty, hand empty)
\* leaves the reader's hand and projection as they are
QuietRoundAtRest ==
    [][(/\ Hand.cards = <<>>
        /\ emptySince[P] # None
        /\ detected'[P] = <<>>) =>
           /\ CURRENT_HANDS'[P] = Hand
           /\ READER_STATE'[P] = Projection
           /\ emptySince'[P] = emptySince[P]]_vars

\* C12 (persistent read failure, SPI server), as claimed: once every read has
\* raised for longer than FOLD_DELAY_TIME (the time after which reads that return
\* nothing fold the hand), CURRENT_HAND.cards is empty and STATE["main"].uid is
\* unset.
SpiReadFailureEmptiesHand ==
    (/\ spi.failing_since # None
     /\ spi.now - spi.failing_since > FOLD_DELAY_TIME) =>
        /\ spi.hand.cards = <<>>
        /\ spi.state.uid = None

\* a read that raises leaves the SPI server's hand and STATE entry as they are
SpiRaisedPollChangesNothing ==
    [][spi'.outcome = Raised => spi'.hand = spi.hand /\ spi'.state = spi.state]_vars

\* C13 (transient read error equals no detection): a round in which every probe
\* of a reader raised, or returned no tag, or some did the one and some the other,
\* makes up_to_two_cards return the empty list, and leaves the reader's history,
\* hand and projection exactly as a round that detected nothing does; nothing is
\* raised into the loop, which goes on to the next round.
RaisedProbesAreNoDetection ==
    [][\A r \in READERS :
          (\A i \in 1..Len(probes'[r]) : probes'[r][i] \in {Raised, NoCard}) =>
              LET quiet == PollReader(CARD_DETECTION_HISTORY[r], CURRENT_HANDS[r],
                                      READER_STATE[r], <<>>, UID_TO_LABEL, current_time')
              IN  /\ detected'[r] = <<>>
                  /\ CARD_DETECTION_HISTORY'[r] = quiet.history
                  /\ CURRENT_HANDS'[r] = quiet.hand
                  /\ READER_STATE'[r] = quiet.state
                  /\ current_time' > current_time]_vars

\* every probe of the latest round raised, and that round's recompute put a card
\* into the hand
AllProbesRaisedAndHandChanged ==
    /\ \A i \in 1..Len(probes[P]) : probes[P][i] = Raised
    /\ Len(probes[P]) = ProbesPerWindow
    /\ Hand.cards # <<>>
    /\ Hand.last_stable = current_time

\* C14 (history capacity): after every round a reader's detection history holds
\* at most MAX_HISTORY_SIZE detections, and it is the old history followed by the
\* round's detections with exactly the oldest entries dropped: the newest
\* MAX_HISTORY_SIZE of them (or all, if fewer) in their order.
HistoryKeepsNewest ==
    [][\A r \in READERS :
          LET all == CARD_DETECTION_HISTORY[r]
                       \o [i \in 1..Len(detected'[r]) |->
                             [uid |-> detected'[r][i],
                              label |-> UID_TO_LABEL[detected'[r][i]],
                              timestamp |-> current_time']]
              n == Len(all)
              keep == IF n > MAX_HISTORY_SIZE THEN MAX_HISTORY_SIZE ELSE n
              kept == CARD_DETECTION_HISTORY'[r]
          IN  /\ Len(kept) <= MAX_HISTORY_SIZE
              /\ Len(kept) = keep
              /\ \A i \in 1..keep : kept[i] = all[n - keep + i]]_vars

\* the latest round appended to a full history: its detections are the last
\* entries and the oldest entries are gone
HistoryOverflowed ==
    /\ Len(CARD_DETECTION_HISTORY[P]) = MAX_HISTORY_SIZE
    /\ detected[P] # <<>>
    /\ CARD_DETECTION_HISTORY[P][MAX_HISTORY_SIZE].timestamp = current_time
    /\ CARD_DETECTION_HISTORY[P][1].timestamp > StartTime + 1

\* a detection the recompute at t must not see
IsOld(d, t) == t - d.timestamp > RECENT_WINDOW

\* histories that differ from h only in detections older than the window: those
\* removed, those given another identifier, and one more of them added
OldAltered(h, t) ==
    { SelectSeq(h, LAMBDA d : ~IsOld(d, t)),
      [i \in 1..Len(h) |-> IF IsOld(h[i], t) THEN [h[i] EXCEPT !.uid = 2, !.label = None]
                           ELSE h[i]],
      <<[uid |-> 1, label |-> UID_TO_LABEL[1], timestamp |-> t - RECENT_WINDOW - 1]>> \o h }

\* C15 (sliding window): the hand and the projection a round's recompute produces
\* are those it would produce from any history that differs only in detections
\* older than RECENT_WINDOW; a detection exactly RECENT_WINDOW old still counts
\* (its card is in the hand).
OldDetectionsInvisible ==
    [][\A r \in READERS :
          /\ \A h \in OldAltered(CARD_DETECTION_HISTORY'[r], current_time') :
                ProcessCardStability(h, CURRENT_HANDS[r], READER_STATE[r], current_time')
                  = [hand |-> CURRENT_HANDS'[r], state |-> READER_STATE'[r]]
          /\ \A i \in 1..Len(CARD_DETECTION_HISTORY'[r]) :
                current_time' - CARD_DETECTION_HISTORY'[r][i].timestamp = RECENT_WINDOW =>
                    CARD_DETECTION_HISTORY'[r][i].uid \in Range(Uids(CURRENT_HANDS'[r].cards))]_vars

\* the history holds a detection older than the window and the round's own
\* detection, and the recompute, not seeing the old one, has cleared the hand
OldDetectionIgnored ==
    /\ \E i \in 1..Len(CARD_DETECTION_HISTORY[P]) :
          IsOld(CARD_DETECTION_HISTORY[P][i], current_time)
    /\ detected[P] # <<>>
    /\ Hand.cards = <<>>
    /\ Hand.last_stable = current_time

\* a detection exactly RECENT_WINDOW old is the one that keeps its card stable
BoundaryDetectionCounts ==
    /\ Len(CARD_DETECTION_HISTORY[P]) = 2
    /\ current_time - CARD_DETECTION_HISTORY[P][1].timestamp = RECENT_WINDOW
    /\ CARD_DETECTION_HISTORY[P][2].timestamp = current_time
    /\ Hand.cards # <<>>

\* C16 (continuous visibility), as claimed: a round that puts u into the hand has
\* detected u itself, and u was also detected, inside the recent window, at least
\* CARD_STABILITY_TIME before; a single detection that is merely old enough never
\* puts u into the hand.
PromotedOnlyWhileVisible ==
    [][\A u \in UIDS :
          (~InHand(u) /\ u \in Range(Uids(CURRENT_HANDS'[P].cards))) =>
              /\ u \in Range(detected'[P])
              /\ \E i \in 1..Len(CARD_DETECTION_HISTORY'[P]) :
                    LET d == CARD_DETECTION_HISTORY'[P][i]
                    IN  /\ d.uid = u
                        /\ current_time' - d.timestamp >= CARD_STABILITY_TIME
                        /\ current_time' - d.timestamp <= RECENT_WINDOW]_vars

\* the longest gap C17 speaks of: recency window minus stability time
GapLimit == RECENT_WINDOW - CARD_STABILITY_TIME

ResponseIsSnapshot ==
    request.pc = "done" =>
        /\ request.hand_size = Len(request.hand_cards)
        /\ request.is_stable = (Len(request.hand_cards) > 0)
        /\ (request.fold_start # None => request.hand_cards # <<>>)

\* when the poll thread has made all the writes of a round, the hands and STATE
\* are what process_card_stability as a whole produces
WritesMakeTheRound ==
    Len(thread.pending) = 0 =>
        \A r \in READERS :
            /\ CURRENT_HANDS[r] = thread.goal[r].hand
            /\ READER_STATE[r] = thread.goal[r].state

\* C19 (single writer of the projection), as claimed: no field of a reader's
\* projection changes but in a poll round, by the recompute; no API request
\* changes it.
OnlyRecomputeWritesProjection ==
    [][READER_STATE' # READER_STATE => current_time' # current_time]_vars

\* C20 (label-map update visibility), as claimed: after every round, each card
\* of the projection whose identifier has a label in the map shows that label,
\* and so does the projection's own label for its primary card.  (A label is in
\* the map from the start or by a completed /api/map request; the round reads
\* the map as the requests before it left it.)
RecomputeShowsMappedLabel ==
    [][current_time' # current_time =>
          LET shown == READER_STATE'[P]
          IN  /\ \A i \in 1..Len(shown.hand_cards) :
                    UID_TO_LABEL[shown.hand_cards[i].uid] # None =>
                        shown.hand_cards[i].label = UID_TO_LABEL[shown.hand_cards[i].uid]
              /\ (shown.uid # None /\ UID_TO_LABEL[shown.uid] # None) =>
                    shown.label = UID_TO_LABEL[shown.uid]]_vars

\* the reader whose loop body the poll thread is running
Polling(r) == poll.pc = "body" /\ ReaderOrder[poll.i] = r

\* C21 (position independence): a step changes the detection history, the hand
\* or the projection of a reader only while the poll thread runs the loop body
\* for that reader: appending the detections of reader p and recomputing its
\* stability leaves the history, hand and projection of every other reader as
\* they were, whatever the readers return and wherever the round stands.
PositionsIndependent ==
    [][\A q \in READERS :
          (\/ CARD_DETECTION_HISTORY'[q] # CARD_DETECTION_HISTORY[q]
           \/ CURRENT_HANDS'[q] # CURRENT_HANDS[q]
           \/ READER_STATE'[q] # READER_STATE[q]) => Polling(q)]_vars

\* a round has ended in which the second reader appended a detection of its
\* own and was recomputed, while the first reader holds a stable card that the
\* second does not
PositionsDiffer ==
    /\ poll.pc = "sleep"
    /\ CURRENT_HANDS[ReaderOrder[1]].cards # <<>>
    /\ detected[ReaderOrder[2]] # <<>>
    /\ poll.recomputed[ReaderOrder[2]] = poll.tick
    /\ CURRENT_HANDS[ReaderOrder[2]].cards = <<>>
    /\ READER_STATE[ReaderOrder[2]].uid = None
    /\ READER_STATE[ReaderOrder[1]].uid # None

\* C22 (shutdown): once stop_flag is set the poll loop starts no new round and
\* takes at most one more sampling window from each reader (those of the round
\* in progress), and it terminates: the while test that follows leaves the loop.
ShutdownFinishesRound ==
    /\ [](stop_flag => /\ poll.rounds_after_stop = 0
                       /\ \A r \in READERS : poll.polls_after_stop[r] <= 1)
    /\ (stop_flag ~> poll.pc = "stopped")

\* the flag was set in the middle of a later round, after the first reader had
\* been polled: the second reader was polled once more and the loop was left
StoppedAfterFinishingRound ==
    /\ poll.pc = "stopped"
    /\ poll.tick >= 2
    /\ poll.polls_after_stop[ReaderOrder[1]] = 0
    /\ poll.polls_after_stop[ReaderOrder[2]] = 1
    /\ poll.recomputed[ReaderOrder[2]] = poll.tick

\* C23 (strict per-position ordering): for every reader, the detections of a
\* tick are appended before that tick's recompute runs and the recompute of a
\* tick has returned before the next tick's append; the reader's history is
\* changed only by the poll thread's append and its hand only by the poll
\* thread's recompute, which works on the history with the tick's detections in
\* it.
StrictTickOrder ==
    /\ [](\A r \in READERS :
             /\ poll.recomputed[r] <= poll.appended[r]
             /\ poll.appended[r] <= poll.recomputed[r] + 1
             /\ poll.appended[r] <= poll.tick)
    /\ [][\A r \in READERS :
             /\ CARD_DETECTION_HISTORY'[r] # CARD_DETECTION_HISTORY[r] =>
                    /\ Polling(r)
                    /\ poll.recomputed[r] = poll.appended[r]
                    /\ poll'.appended[r] = poll.tick
                    /\ poll'.recomputed[r] = poll.tick - 1
             /\ CURRENT_HANDS'[r] # CURRENT_HANDS[r] =>
                    /\ Polling(r)
                    /\ poll.appended[r] = poll.tick
                    /\ poll'.recomputed[r] = poll.tick
                    /\ CARD_DETECTION_HISTORY'[r] = CARD_DETECTION_HISTORY[r]
                    /\ \A i \in 1..Len(detected[r]) :
                          \E k \in 1..Len(CARD_DETECTION_HISTORY[r]) :
                              /\ CARD_DETECTION_HISTORY[r][k].uid = detected[r][i]
                              /\ CARD_DETECTION_HISTORY[r][k].timestamp = current_time]_vars

\* the second tick's recompute for a reader has returned: it changed the hand,
\* after the tick's own detection had been appended
SecondTickRecomputed ==
    \E r \in READERS :
        /\ poll.tick >= 2
        /\ poll.recomputed[r] = poll.tick
        /\ detected[r] # <<>>
        /\ CURRENT_HANDS[r].last_stable = current_time
        /\ CURRENT_HANDS[r].cards # <<>>

\* the recent window the round at current_time' finds for reader r
WindowAfter(r) == RecentDetections(CARD_DETECTION_HISTORY'[r], current_time')

Window(r) == RecentDetections(CARD_DETECTION_HISTORY[r], current_time)

\* C25 (a recent observation cancels a pending fold): after every round that
\* found the recent window non-empty the fold timer is unset, whatever became of
\* the hand; in particular after every round that detected an identifier.
RecentObservationCancelsFold ==
    \A r \in READERS :
        /\ Window(r) # <<>> => CURRENT_HANDS[r].fold_start = None
        /\ detected[r] # <<>> => CURRENT_HANDS[r].fold_start = None

\* the tag came back after a gap so long that a round in between found the
\* window empty and started the fold timer on a hand that held the card; the
\* round that detected it again reset the timer (and replaced the hand)
FoldTimerCancelled ==
    \E u \in UIDS :
        /\ run[P][u].from = current_time
        /\ run[P][u].prev_to # None
        /\ run[P][u].from - run[P][u].prev_to > RECENT_WINDOW + MaxDt
        /\ Hand.last_stable = current_time
        /\ Hand.fold_start = None

\* C26 (grace-period frame): a round that finds the recent window empty leaves
\* the projection alone and, of the hand, changes only this: with cards and no
\* fold timer it sets fold_start to the round's instant; with a timer younger
\* than FOLD_DELAY_TIME it changes nothing; with no cards it changes nothing
\* (all that is left is the fold itself).
GracePeriodFrame ==
    [][\A r \in READERS :
          (current_time' # current_time /\ WindowAfter(r) = <<>>) =>
              LET hand == CURRENT_HANDS[r]
                  after == CURRENT_HANDS'[r]
              IN  /\ READER_STATE'[r] = READER_STATE[r]
                  /\ (hand.cards # <<>> /\ hand.fold_start = None) =>
                         after = [hand EXCEPT !.fold_start = current_time']
                  /\ (hand.fold_start # None
                        /\ current_time' - hand.fold_start < FOLD_DELAY_TIME) =>
                         after = hand
                  /\ hand.cards = <<>> => after = hand
                  /\ after.cards \in {hand.cards, <<>>}]_vars

\* a round inside the grace period: the timer, started by an earlier round, is
\* younger than FOLD_DELAY_TIME and the hand still holds its card
InsideGracePeriod ==
    /\ detected[P] = <<>>
    /\ Window(P) = <<>>
    /\ Hand.cards # <<>>
    /\ Hand.fold_start # None
    /\ Hand.fold_start < current_time
    /\ current_time - Hand.fold_start < FOLD_DELAY_TIME

\* the identifiers that are stable at the round at current_time': those with a
\* detection in the round's window that is at least CARD_STABILITY_TIME old
StableIdsAfter(r) ==
    {WindowAfter(r)[i].uid : i \in {k \in 1..Len(WindowAfter(r)) :
        current_time' - WindowAfter(r)[k].timestamp >= CARD_STABILITY_TIME}}

\* C27 (change detection): a round that finds the window non-empty leaves the
\* hand's cards (the entries as stored, with their label, first_seen and
\* last_seen) and last_stable as they are when the stable identifiers are those
\* of the hand; otherwise the hand's cards become the stable set (possibly
\* empty) and last_stable the round's instant.  Hence last_stable changes only
\* in a round that changes the hand's identifier list (a fold included).
ChangeDetection ==
    [][\A r \in READERS :
          LET hand == CURRENT_HANDS[r]
              after == CURRENT_HANDS'[r]
          IN  /\ (current_time' # current_time /\ WindowAfter(r) # <<>>) =>
                     IF StableIdsAfter(r) = Range(Uids(hand.cards))
                     THEN /\ after.cards = hand.cards
                          /\ after.last_stable = hand.last_stable
                     ELSE /\ Range(Uids(after.cards)) = StableIdsAfter(r)
                          /\ after.last_stable = current_time'
              /\ after.last_stable # hand.last_stable =>
                     Uids(after.cards) # Uids(hand.cards)]_vars

\* the latest round detected a card of the hand again and recomputed the same
\* identifiers: the hand kept its stored entries, which differ (in last_seen)
\* from the recomputed ones the projection shows, and its last_stable
UnchangedHandKeepsEntries ==
    /\ detected[P] # <<>>
    /\ Hand.cards # <<>>
    /\ Uids(Projection.hand_cards) = HandUids
    /\ Projection.hand_cards # Hand.cards
    /\ Hand.last_stable < current_time

\* C28 (projection rule): after every round that finds the window non-empty,
\* whether or not the hand changed, the projection shows the stable card with
\* the lowest identifier (its uid, and a label its in-window detections carry)
\* or nothing if no card is stable, hand_size is the number of stable cards,
\* and last_seen is the round's instant if a card is stable and unset if not.
ProjectionRule ==
    [][\A r \in READERS :
          (current_time' # current_time /\ WindowAfter(r) # <<>>) =>
              LET ids == StableIdsAfter(r)
                  shown == READER_STATE'[r]
              IN  /\ shown.hand_size = Cardinality(ids)
                  /\ Range(Uids(shown.hand_cards)) = ids
                  /\ IF ids = {}
                     THEN /\ shown.uid = None
                          /\ shown.label = None
                          /\ shown.last_seen = None
                     ELSE /\ shown.uid \in ids
                          /\ \A u \in ids : shown.uid <= u
                          /\ shown.hand_cards[1].uid = shown.uid
                          /\ shown.label = shown.hand_cards[1].label
                          /\ \E i \in 1..Len(WindowAfter(r)) :
                                /\ WindowAfter(r)[i].uid = shown.uid
                                /\ WindowAfter(r)[i].label = shown.label
                          /\ shown.last_seen = current_time']_vars

\* a round that left the hand of the unmapped tags 2 and 3 as it was: the
\* projection shows tag 2, no label, two cards, and the round's instant
ProjectionOfUnchangedHand ==
    /\ detected[P] # <<>>
    /\ HandUids = <<2, 3>>
    /\ Hand.last_stable < current_time
    /\ Projection.uid = 2
    /\ Projection.label = None
    /\ Projection.hand_size = 2
    /\ Projection.last_seen = current_time

\* the detections of u in the window the round at current_time' finds for r
SightingsAfter(r, u) == SelectSeq(WindowAfter(r), LAMBDA d : d.uid = u)

\* C29 (deduplication), as claimed: every card computed by a round that finds
\* the window non-empty (shown in the projection's hand_cards) has first_seen = the earliest and last_seen = the
\* latest timestamp of its identifier's detections in the window, and the label
\* of the most recent of them.
Deduplication ==
    [][\A r \in READERS :
          (current_time' # current_time /\ WindowAfter(r) # <<>>) =>
              \A i \in 1..Len(READER_STATE'[r].hand_cards) :
                  LET card == READER_STATE'[r].hand_cards[i]
                      seen == SightingsAfter(r, card.uid)
                  IN  /\ seen # <<>>
                      /\ \A k \in 1..Len(seen) :
                            /\ card.first_seen <= seen[k].timestamp
                            /\ card.last_seen >= seen[k].timestamp
                      /\ \E k \in 1..Len(seen) : card.first_seen = seen[k].timestamp
                      /\ \E k \in 1..Len(seen) : card.last_seen = seen[k].timestamp
                      /\ card.label = seen[Len(seen)].label]_vars

\* what the code computes: first_seen and the label are those of the earliest
\* in-window detection of the identifier, last_seen is that of the latest
DeduplicationTimes ==
    [][\A r \in READERS :
          (current_time' # current_time /\ WindowAfter(r) # <<>>) =>
              \A i \in 1..Len(READER_STATE'[r].hand_cards) :
                  LET card == READER_STATE'[r].hand_cards[i]
                      seen == SightingsAfter(r, card.uid)
                  IN  /\ seen # <<>>
                      /\ card.first_seen = seen[1].timestamp
                      /\ card.last_seen = seen[Len(seen)].timestamp
                      /\ card.label = seen[1].label]_vars

\* how often the probes of P's latest sampling window read u
Reads(u) == Cardinality({i \in 1..Len(probes[P]) : probes[P][i] = u})

\* C30 (reader sampling): whatever the probes of a sampling window do (read a
\* tag, read none, raise), the while loop of up_to_two_cards is left (what
\* remains is the return statement); what it returns is at most
\* 2 identifiers, pairwise distinct and each read in the window, and no
\* identifier left out was read more often than one returned (with fewer than 2
\* returned, none read was left out); with no tag read it returns nothing.
ReaderSampling ==
    /\ [](poll.pc = "returned" =>
             LET ret == detected[P]
                 seen == {u \in UIDS : Reads(u) > 0}
             IN  /\ Len(ret) <= 2
                 /\ \A i, j \in 1..Len(ret) : i # j => ret[i] # ret[j]
                 /\ Range(ret) \subseteq seen
                 /\ Len(ret) = IF Cardinality(seen) < 2 THEN Cardinality(seen) ELSE 2
                 /\ \A u \in Range(ret), v \in seen \ Range(ret) : Reads(u) >= Reads(v)
                 /\ (seen = {} => ret = <<>>))
    /\ (poll.pc = "sampling" ~> poll.monotonic >= SampleWindow)

\* three tags were read in one window, the first of them once and the other
\* two twice each: the first was left out
ThirdTagLeftOut ==
    /\ poll.pc = "returned"
    /\ Len(probes[P]) = 5
    /\ probes[P][1] = 3
    /\ Reads(3) = 1 /\ Reads(1) = 2 /\ Reads(2) = 2
    /\ Range(detected[P]) = {1, 2}

\* C31 (record): the append of a tick adds to the reader's history exactly one
\* detection per identifier returned, in the order returned, after what the
\* history held (cut to its newest MAX_HISTORY_SIZE), each with the label the map
\* gives the identifier at that moment (None if unmapped) and with the tick's
\* current_time as timestamp; current_time does not change during the loop
\* body, so all detections of a tick carry the same timestamp, and it is the
\* instant the tick's process_card_stability is called with.
RecordAppends ==
    /\ [][\A r \in READERS :
             poll'.appended[r] # poll.appended[r] =>
                 LET ids == detected'[r]
                     old == CARD_DETECTION_HISTORY[r]
                     new == CARD_DETECTION_HISTORY'[r]
                     n == Len(ids)
                     kept == Len(new) - n
                 IN  /\ Len(new) = IF Len(old) + n > MAX_HISTORY_SIZE
                                   THEN MAX_HISTORY_SIZE ELSE Len(old) + n
                     /\ \A i \in 1..n :
                           new[kept + i] = [uid |-> ids[i],
                                            label |-> UID_TO_LABEL[ids[i]],
                                            timestamp |-> current_time]
                     /\ \A i \in 1..kept : new[i] = old[Len(old) - kept + i]]_vars
    /\ [][poll.pc = "body" => current_time' = current_time]_vars
    /\ [][\A r \in READERS :
             poll'.recomputed[r] # poll.recomputed[r] =>
                 LET out == ProcessCardStability(CARD_DETECTION_HISTORY[r], CURRENT_HANDS[r],
                                                 READER_STATE[r], current_time)
                 IN  /\ poll.appended[r] = poll.tick
                     /\ CURRENT_HANDS'[r] = out.hand
                     /\ READER_STATE'[r] = out.state]_vars

\* a tick has appended two detections, in the order returned and with one
\* timestamp, the second of an identifier whose earlier detection carries
\* another label: the map was written between the two ticks
RecordedUnderChangingMap ==
    LET h == CARD_DETECTION_HISTORY[P]
    IN  /\ poll.pc = "sleep"
        /\ detected[P] = <<2, 1>>
        /\ Len(h) = 3
        /\ h[1].uid = 1 /\ h[1].label = 1 /\ h[1].timestamp < current_time
        /\ h[2] = [uid |-> 2, label |-> None, timestamp |-> current_time]
        /\ h[3] = [uid |-> 1, label |-> 2, timestamp |-> current_time]

\* detections or cards with their labels taken away
Unlabelled(cards) == [i \in 1..Len(cards) |-> [cards[i] EXCEPT !.label = None]]

\* a reader's history, hand and projection with every label taken away
WithoutLabels(history, hand, state) ==
    [history |-> Unlabelled(history),
     hand |-> [hand EXCEPT !.cards = Unlabelled(@)],
     state |-> [state EXCEPT !.label = None, !.hand_cards = Unlabelled(@)]]

\* C32 (unmapped identifiers are not errors): a round does to a reader's
\* history, hand and projection, labels apart, exactly what it does when no
\* identifier is mapped at all, so an unmapped identifier is recorded, debounced
\* and promoted at the same rounds as a mapped one; the card of an unmapped
\* identifier has label None, and an unmapped identifier returned by every round
\* of a clean run is in the hand exactly from CARD_STABILITY_TIME after the run
\* began.  (No step of the append or of process_card_stability can raise on a
\* None label: none is modelled as raising.)
UnmappedLikeMapped ==
    /\ [][\A r \in READERS :
             LET bare == WithoutLabels(CARD_DETECTION_HISTORY[r], CURRENT_HANDS[r],
                                       READER_STATE[r])
                 out == PollReader(bare.history, bare.hand, bare.state, detected'[r],
                                   [u \in UIDS |-> None], current_time')
             IN  WithoutLabels(CARD_DETECTION_HISTORY'[r], CURRENT_HANDS'[r],
                               READER_STATE'[r]) = out]_vars
    /\ [](\A u \in UIDS :
             UID_TO_LABEL[u] = None =>
                 /\ \A i \in 1..Len(Hand.cards) :
                       Hand.cards[i].uid = u => Hand.cards[i].label = None
                 /\ Projection.uid = u => Projection.label = None
                 /\ Running(u) /\ run[P][u].clean =>
                       (InHand(u) <=> current_time - run[P][u].from >= CARD_STABILITY_TIME))

\* a mapped and an unmapped identifier first returned by the same round were
\* promoted by the same round, the unmapped one with label None
UnmappedPromotedWithMapped ==
    /\ Len(Hand.cards) = 2
    /\ Hand.cards[1].uid = 1 /\ Hand.cards[1].label = 1
    /\ Hand.cards[2].uid = 2 /\ Hand.cards[2].label = None
    /\ Hand.cards[1].first_seen = Hand.cards[2].first_seen
    /\ Hand.last_stable = current_time
    /\ Projection.hand_cards = Hand.cards

\* C33 (no fold countdown on an empty hand): after every round, a reader's
\* fold_start is set only if its hand holds a card.
FoldTimerOnlyOnCards ==
    \A r \in READERS :
        CURRENT_HANDS[r].fold_start # None => CURRENT_HANDS[r].cards # <<>>

\* the fold timer has been running over a held card for more than one round
FoldCountdownOnHeldCard ==
    /\ Hand.cards # <<>>
    /\ Hand.fold_start # None
    /\ Hand.fold_start < current_time
    /\ emptySince[P] = Hand.fold_start

\* C34 (last_stable of a held hand), as claimed: after every round, a reader
\* whose hand holds a card has last_stable set, and not later than the round's
\* current_time; a hand with no card has last_stable set only after the change
\* update has emptied it (a round with a non-empty window took the hand from
\* some cards to none and set last_stable to its current_time), and until the
\* hand next changes.
LastStableSetWithCards ==
    /\ [](\A r \in READERS :
             CURRENT_HANDS[r].cards # <<>> =>
                 /\ CURRENT_HANDS[r].last_stable # None
                 /\ CURRENT_HANDS[r].last_stable <= current_time)
    /\ [][\A r \in READERS :
             (CURRENT_HANDS'[r].cards = <<>> /\ CURRENT_HANDS'[r].last_stable # None) =>
                 \/ CURRENT_HANDS'[r] = CURRENT_HANDS[r]
                 \/ /\ CURRENT_HANDS[r].cards # <<>>
                    /\ WindowAfter(r) # <<>>
                    /\ CURRENT_HANDS'[r].last_stable = current_time']_vars

\* C35 (fold latency): a round that folds a reader's hand (it finds the window
\* empty and empties the hand) comes at least RECENT_WINDOW + FOLD_DELAY_TIME
\* after the last round in which the reader returned an identifier: no
\* identifier was returned in the 15 s up to the fold.  (The instants of the
\* rounds increase.)
FoldLatency ==
    [][\A r \in READERS :
          (/\ CURRENT_HANDS[r].cards # <<>>
           /\ CURRENT_HANDS'[r].cards = <<>>
           /\ WindowAfter(r) = <<>>) =>
              /\ detected'[r] = <<>>
              /\ \A u \in UIDS :
                    run'[r][u].to # None =>
                        current_time' - run'[r][u].to >= RECENT_WINDOW + FOLD_DELAY_TIME
              /\ \A i \in 1..Len(CARD_DETECTION_HISTORY'[r]) :
                    current_time' - CARD_DETECTION_HISTORY'[r][i].timestamp
                        >= RECENT_WINDOW + FOLD_DELAY_TIME]_vars

\* the earliest fold there is: the round just made folded the hand, the timer
\* having started at the first instant past the window of the last detection
FoldedAtTheEarliest ==
    /\ Hand = EmptyHand
    /\ Projection.uid = 1
    /\ detected[P] = <<>>
    /\ emptySince[P] = current_time - FOLD_DELAY_TIME
    /\ run[P][1].to = emptySince[P] - RECENT_WINDOW - 1

\* C36 (capacity against window): with at most 2 identifiers returned per round
\* and the rounds at least window_ms + POLL_INTERVAL apart, every detection the
\* cut to MAX_HISTORY_SIZE removes is older than RECENT_WINDOW at that round, so
\* the round finds the window, and with it the stable cards, the hand and the
\* projection, that it would find had the history never been cut.
CapacityCoversWindow ==
    [][\A r \in READERS :
          LET t == current_time'
              all == CARD_DETECTION_HISTORY[r]
                       \o Detections(detected'[r], UID_TO_LABEL, t)
              kept == CARD_DETECTION_HISTORY'[r]
              removed == SubSeq(all, 1, Len(all) - Len(kept))
          IN  /\ Len(detected'[r]) <= 2
              /\ t - current_time >= MinTick
              /\ \A i \in 1..Len(removed) : t - removed[i].timestamp > Ms(RECENT_WINDOW)
              /\ RecentDetectionsMs(kept, t) = RecentDetectionsMs(mirror'.history[r], t)
              /\ CURRENT_HANDS'[r] = mirror'.hands[r]
              /\ READER_STATE'[r] = mirror'.state[r]]_vars

\* the rounds have come as fast and returned as much as they can: the history
\* is full, detections have been cut from it, and the oldest detection left is
\* outside the window
CutOutsideWindow ==
    /\ Len(CARD_DETECTION_HISTORY[P]) = MAX_HISTORY_SIZE
    /\ Len(mirror.history[P]) >= MAX_HISTORY_SIZE + 4
    /\ detected[P] = <<2, 1>>
    /\ current_time - CARD_DETECTION_HISTORY[P][1].timestamp = 24 * MinTick
    /\ current_time - CARD_DETECTION_HISTORY[P][1].timestamp > Ms(RECENT_WINDOW)
    /\ Len(RecentDetectionsMs(CARD_DETECTION_HISTORY[P], current_time)) < MAX_HISTORY_SIZE
    /\ HandUids = <<1, 2>>

\* no iteration of the poker server's poll loop and no request is in progress
PokerAtRest ==
    /\ poker.pc = "read"
    /\ \A h \in HANDLERS : poker.handler[h].pc = "idle"

\* C37 (label consistency under races, pn532_poker_server), as claimed:
\* whenever no poll iteration and no request is in progress, a STATE entry whose
\* uid is set has the label UID_TO_LABEL now gives that identifier (None if it
\* is unmapped).
LabelConsistentAtRest ==
    (PokerAtRest /\ poker.state.uid # None) =>
        poker.state.label = poker.UID_TO_LABEL[poker.state.uid]

\* C38 (label uniqueness), as claimed: from a map in which no two identifiers
\* share a label, whatever /api/map and /api/clear requests are handled, also
\* by different server threads at once, UID_TO_LABEL never gives two identifiers
\* the same label; and a map request whose label is in use when it is tested is
\* answered with an error and changes neither the map nor STATE.
LabelUniqueness ==
    /\ [](\A u, v \in UIDS :
             (u # v /\ poker.UID_TO_LABEL[u] # None) =>
                 poker.UID_TO_LABEL[u] # poker.UID_TO_LABEL[v])
    /\ [][\A h \in HANDLERS :
             (/\ poker.handler[h].pc = "check"
              /\ poker'.handler[h].pc # "check"
              /\ LabelInUse(poker.UID_TO_LABEL, poker.handler[h].label)) =>
                 /\ poker'.handler[h].response = 400
                 /\ poker'.handler[h].pc = "idle"
                 /\ poker'.UID_TO_LABEL = poker.UID_TO_LABEL
                 /\ poker'.state = poker.state]_vars

\* C39 (fold rule of the SPI server): CURRENT_HAND.cards loses cards only by
\* being emptied, and only at a poll whose read returned nothing, more than
\* FOLD_DELAY_TIME after fold_start; fold_start, when set, is the instant of the
\* first of the polls that have returned nothing since the last detection, and
\* the hand then holds a card; after a poll that returned an identifier
\* fold_start is unset; no two cards of the hand have the same uid.  (A poll
\* whose read raises is neither: it changes nothing.)
SpiFoldRule ==
    /\ [][Len(spi'.hand.cards) < Len(spi.hand.cards) =>
             /\ spi'.hand.cards = <<>>
             /\ spi'.outcome = NoCard
             /\ spi'.absent_since # None
             /\ spi.hand.fold_start \in {None, spi'.absent_since}
             /\ spi'.now - spi'.absent_since > FOLD_DELAY_TIME]_vars
    /\ [](spi.hand.fold_start # None =>
             /\ spi.hand.fold_start = spi.absent_since
             /\ spi.hand.cards # <<>>)
    /\ [](spi.outcome \in UIDS => spi.hand.fold_start = None)
    /\ [](\A i, j \in 1..Len(spi.hand.cards) :
             i # j => spi.hand.cards[i].uid # spi.hand.cards[j].uid)

\* the hand of two cards has just been emptied, at the first poll more than
\* FOLD_DELAY_TIME after the first of the polls that returned nothing
SpiFolded ==
    /\ spi.hand.cards = <<>>
    /\ spi.hand.fold_start = None
    /\ spi.hand.last_stable # None
    /\ Len(spi.history) >= 2
    /\ spi.history[1].uid # spi.history[2].uid
    /\ spi.outcome = NoCard
    /\ spi.absent_since # None
    /\ spi.now - spi.absent_since = FOLD_DELAY_TIME + 1
====
